---- MODULE Spec2Model ----
(***************************************************************************)
(* Model of the pool opening-hours pipeline: the batch scrapers            *)
(* (scraper/scrape_pools.py, scraper/scrape_pools_fixed.py) and the        *)
(* plausibility cleaner (clean_with_check.py).                             *)
(*                                                                         *)
(* A Python str is a sequence of characters, each character a one-element  *)
(* TLA+ string.  Characters outside ASCII are written with these codes:    *)
(*   "a:" "o:" "u:" "A:" "O:" "U:"  the umlauts,  "--" the en dash U+2013, *)
(*   "---" the em dash U+2014.                                             *)
(* Every regular expression of the source is translated into an operator   *)
(* that scans the character sequence the way re does (leftmost match,      *)
(* greedy/lazy quantifiers, non-overlapping substitution).                 *)
(***************************************************************************)
EXTENDS Integers, Sequences, FiniteSets, TLC

VARIABLES
    file,       \* data/pools.json: [exists, data], data the persisted list of pool records
    passes,     \* Spec: cleaning passes run since the file was last written by a scraper
    prevFile,   \* Spec: the file as it was before the latest cleaning pass
    dayWd,      \* SpecDay: the weekday whose list is cleaned
    dayIn,      \* SpecDay: the raw entry list read for that weekday
    dayOut,     \* SpecDay: the list the cleaning pass stores for that weekday
    dayPhase,   \* SpecDay: "raw" | "cleaned"
    ent,        \* SpecEntry: the entry text
    entPrev,    \* SpecEntry: the entry text before the latest normalization
    entPhase,   \* SpecEntry: number of normalizations applied so far
    entBy,      \* SpecTrunc: the function that made the entry, "none" before
    batch,      \* Spec: the latest batch run, one [url, outcome] per URL of the command line
    disk,       \* SpecServe: data/pools.json as a reader finds it, [kind, bytes, by, full, val]
    writer,     \* SpecServe: the write in progress, [pc, who, bytes, done]
    response,   \* SpecServe: the answer of the latest get_pools request and the file it saw
    pass,       \* SpecPass: the cleaning pass at work, [pc, who, data, next, before]
    spanText,   \* SpecSpan: hours_text, the flattened page text
    spanOut,    \* SpecSpan: the hours extracted from it
    spanPhase,  \* SpecSpan: "text" | "extracted"
    tab,        \* SpecTable: the first table of the page
    tabOut,     \* SpecTable: the opening hours extracted from it
    tabBy,      \* SpecTable: the function that extracted them, "none" before
    later       \* SpecPage: the tables of the page after the first

vars == <<file, passes, prevFile, dayWd, dayIn, dayOut, dayPhase, ent, entPrev, entPhase, entBy,
          batch, disk, writer, response, pass, spanText, spanOut, spanPhase, tab, tabOut, tabBy,
          later>>
sysVars == <<file, passes, prevFile, batch>>
dayVars == <<dayWd, dayIn, dayOut, dayPhase>>
entVars == <<ent, entPrev, entPhase, entBy>>
serveVars == <<disk, writer, response, pass>>
spanVars == <<spanText, spanOut, spanPhase>>
tabVars == <<tab, tabOut, tabBy, later>>

\* data/pools.json: absent, or the list of records last written
NoFile == [exists |-> FALSE, data |-> <<>>]

\* the parts of the state a specification does not use stay as they are here
SysIdle == file = NoFile /\ passes = 0 /\ prevFile = NoFile /\ batch = <<>>
DayIdle == dayWd = "Montag" /\ dayIn = <<>> /\ dayOut = <<>> /\ dayPhase = "raw"
EntIdle == ent = <<>> /\ entPrev = <<>> /\ entPhase = 0 /\ entBy = "none"
ServeIdle ==
    /\ disk = [kind |-> "absent", bytes |-> <<>>, by |-> "none", full |-> FALSE,
               val |-> [t |-> "str", s |-> <<>>, items |-> <<>>]]
    /\ writer = [pc |-> "idle", who |-> "none", bytes |-> <<>>, done |-> 0]
    /\ response = [status |-> 0, detail |-> "", body |-> [t |-> "str", s |-> <<>>, items |-> <<>>],
                   saw |-> disk]
    /\ pass = [pc |-> "idle", who |-> "none", data |-> [t |-> "str", s |-> <<>>, items |-> <<>>],
               next |-> 0, before |-> disk]
SpanIdle == spanText = <<>> /\ spanOut = <<>> /\ spanPhase = "text"
TabIdle == tab = <<>> /\ tabOut = <<>> /\ tabBy = "none" /\ later = <<>>

----------------------------------------------------------------------------
(* Characters *)

UpperChars == <<"A","B","C","D","E","F","G","H","I","J","K","L","M","N","O","P","Q","R","S","T","U","V","W","X","Y","Z","A:","O:","U:">>
LowerChars == <<"a","b","c","d","e","f","g","h","i","j","k","l","m","n","o","p","q","r","s","t","u","v","w","x","y","z","a:","o:","u:">>
DigitChars == <<"0","1","2","3","4","5","6","7","8","9">>

Range(f) == {f[i] : i \in DOMAIN f}
SetMin(S) == CHOOSE x \in S : \A y \in S : x <= y
SetMax(S) == CHOOSE x \in S : \A y \in S : x >= y

\* the least element of a set of indexes, 0 for the empty set: a search that fails
MinOr0(S) == IF S = {} THEN 0 ELSE SetMin(S)

\* of the attempts <<index, end>>, the end of the one with the greatest index
\* among those that matched (end # 0), 0 if none matched
Rightmost(attempts) ==
    LET hit == {m \in attempts : m[2] # 0}
    IN  IF hit = {} THEN 0 ELSE (CHOOSE m \in hit : \A n \in hit : m[1] >= n[1])[2]

\* the first alternative where it matched, else the second
OrElse(first, second) == IF first # 0 THEN first ELSE second

\* table[key] where the table has the key, else the value computed directly
TableGet(table, key, direct) == IF key \in DOMAIN table THEN table[key] ELSE direct

\* str.lower() of one character
lower_char(c) ==
    IF c \in Range(UpperChars)
    THEN LowerChars[CHOOSE i \in 1..Len(UpperChars) : UpperChars[i] = c]
    ELSE c

IsDigit(c) == c \in Range(DigitChars)                      \* \d
IsSpace(c) == c \in {" ", "\t", "\n", "\r"}                \* \s
IsWordChar(c) ==                                           \* \w
    c \in Range(UpperChars) \cup Range(LowerChars) \cup Range(DigitChars) \cup {"_", "ss"}
DigitVal(c) == (CHOOSE i \in 1..10 : DigitChars[i] = c) - 1

----------------------------------------------------------------------------
(* str primitives *)

\* the character at index i (1-based), "" beyond either end
Chr(s, i) == IF i >= 1 /\ i <= Len(s) THEN s[i] ELSE ""

\* s[a:b] with 1-based inclusive bounds, clipped like a Python slice
Slice(s, a, b) ==
    IF a > b \/ a > Len(s) THEN <<>>
    ELSE SubSeq(s, a, IF b > Len(s) THEN Len(s) ELSE b)

\* str.lower()
Lower(s) == IF s = <<>> THEN <<>> ELSE [i \in 1..Len(s) |-> lower_char(s[i])]

\* sub occurs in s at index i
HasAt(s, i, sub) ==
    /\ i >= 1
    /\ i + Len(sub) - 1 <= Len(s)
    /\ \A k \in 1..Len(sub) : s[i + k - 1] = sub[k]

\* the same under re.IGNORECASE
HasAtCI(s, i, sub) ==
    /\ i >= 1
    /\ i + Len(sub) - 1 <= Len(s)
    /\ \A k \in 1..Len(sub) : lower_char(s[i + k - 1]) = lower_char(sub[k])

\* str.find(sub) as a 1-based index, 0 when absent
Find(s, sub) ==
    LET hits == {i \in 1..(Len(s) - Len(sub) + 1) : HasAt(s, i, sub)}
    IN  IF hits = {} THEN 0 ELSE SetMin(hits)

\* sub in s
Contains(s, sub) == \E i \in 1..(Len(s) - Len(sub) + 1) : HasAt(s, i, sub)

\* str.strip()
Strip(s) ==
    LET keep == {i \in 1..Len(s) : ~IsSpace(s[i])}
    IN  IF keep = {} THEN <<>> ELSE SubSeq(s, SetMin(keep), SetMax(keep))

\* the index of the first non-space character at or after i (Len(s)+1 if none): \s*
SkipSpaces(s, i) == SetMin({j \in i..(Len(s) + 1) : ~IsSpace(Chr(s, j))})

\* str.rsplit(' ', 1)[0]
RsplitFirst(s) ==
    LET sp == {i \in 1..Len(s) : s[i] = " "}
    IN  IF sp = {} THEN s ELSE SubSeq(s, 1, SetMax(sp) - 1)

\* str.split(sep, 1)[0]
SplitFirst(s, sep) ==
    LET i == Find(s, sep) IN IF i = 0 THEN s ELSE SubSeq(s, 1, i - 1)

\* str.split(c) for a one-character separator
RECURSIVE SplitChar(_, _)
SplitChar(s, c) ==
    LET hits == {i \in 1..Len(s) : s[i] = c}
    IN  IF hits = {} THEN <<s>>
        ELSE LET i == SetMin(hits)
             IN  <<SubSeq(s, 1, i - 1)>> \o SplitChar(SubSeq(s, i + 1, Len(s)), c)

\* [f(x) for x in seq if x.strip()] building blocks
RECURSIVE StripNonEmpty(_)
StripNonEmpty(seq) ==
    IF seq = <<>> THEN <<>>
    ELSE LET h == Strip(Head(seq))
         IN  (IF h = <<>> THEN <<>> ELSE <<h>>) \o StripNonEmpty(Tail(seq))

----------------------------------------------------------------------------
(* Regular-expression fragments shared by the cleaner *)

\* \d{1,2}:\d{2} at index i: the index after the match, 0 when it does not match
TimeEnd(s, i) ==
    IF /\ IsDigit(Chr(s, i)) /\ IsDigit(Chr(s, i + 1)) /\ Chr(s, i + 2) = ":"
       /\ IsDigit(Chr(s, i + 3)) /\ IsDigit(Chr(s, i + 4))
    THEN i + 5
    ELSE IF /\ IsDigit(Chr(s, i)) /\ Chr(s, i + 1) = ":"
            /\ IsDigit(Chr(s, i + 2)) /\ IsDigit(Chr(s, i + 3))
         THEN i + 4
         ELSE 0

IsTimeDash(c) == c \in {"-", "--"}            \* [-<en dash>]
IsAnyDash(c) == c \in {"-", "--", "---"}      \* [<en dash><em dash>-]

\* \d{1,2}:\d{2}\s*[-<en dash>]\s*\d{1,2}:\d{2} at index i: the index after the match, or 0
PairEnd(s, i) ==
    LET a == TimeEnd(s, i)
    IN  IF a = 0 THEN 0
        ELSE LET b == SkipSpaces(s, a)
             IN  IF ~IsTimeDash(Chr(s, b)) THEN 0
                 ELSE TimeEnd(s, SkipSpaces(s, b + 1))

----------------------------------------------------------------------------
(* clean_with_check.py: constants *)

WEEKDAYS == <<"Montag", "Dienstag", "Mittwoch", "Donnerstag", "Freitag", "Samstag", "Sonntag">>
WeekdaySet == Range(WEEKDAYS)

\* the weekday names as text, for the patterns built with "|".join(WEEKDAYS)
WeekdayText == [
    Montag |-> <<"M","o","n","t","a","g">>,
    Dienstag |-> <<"D","i","e","n","s","t","a","g">>,
    Mittwoch |-> <<"M","i","t","t","w","o","c","h">>,
    Donnerstag |-> <<"D","o","n","n","e","r","s","t","a","g">>,
    Freitag |-> <<"F","r","e","i","t","a","g">>,
    Samstag |-> <<"S","a","m","s","t","a","g">>,
    Sonntag |-> <<"S","o","n","n","t","a","g">>]

MAX_ENTRIES_PER_DAY == 4
ENTRY_MAX_LEN == 120
DESC_MAX_LEN == 80
MIN_ENTRY_LEN == 8
UNPARSED_START == 1440

GESCHLOSSEN == <<"G","e","s","c","h","l","o","s","s","e","n">>          \* "Geschlossen"
UNKNOWN == <<"?">>                                                        \* "?"
K_geschlossen == <<"g","e","s","c","h","l","o","s","s","e","n">>        \* 'geschlossen'
K_eingeschraenk_uml == <<"e","i","n","g","e","s","c","h","r","a:","n","k">>  \* 'eingeschra:nk'
K_eingeschraenk == <<"e","i","n","g","e","s","c","h","r","a","e","n","k">>   \* 'eingeschraenk'
K_eingeschr == <<"e","i","n","g","e","s","c","h","r">>                  \* 'eingeschr'
K_oeffent == <<"o:","f","f","e","n","t">>                                \* 'o:ffent'
K_offent == <<"o","f","f","e","n","t">>                                  \* 'offent'
K_oeffentl == <<"o:","f","f","e","n","t","l">>                           \* 'o:ffentl'
K_schul == <<"s","c","h","u","l">>                                       \* 'schul'
K_verein == <<"v","e","r","e","i","n">>                                  \* 'verein'
K_kurs == <<"k","u","r","s">>                                            \* 'kurs'
K_gemischt == <<"g","e","m","i","s","c","h","t">>                        \* 'gemischt'
K_menschen_mit_behinderung == <<"m","e","n","s","c","h","e","n"," ","m","i","t"," ","b","e","h","i","n","d","e","r","u","n","g">>
K_behinderung == <<"b","e","h","i","n","d","e","r","u","n","g">>        \* 'behinderung'
K_nur_schul == <<"n","u","r"," ","s","c","h","u","l">>                  \* 'nur schul'
K_Einlass == <<" ","E","i","n","l","a","s","s">>                        \* ' Einlass'
K_Badeschluss == <<" ","B","a","d","e","s","c","h","l","u","s","s">>    \* ' Badeschluss'
\* the canonical labels
L_restricted == <<"o:","f","f","e","n","t","l","."," ","S","c","h","w","i","m","m","e","n"," ","(","e","i","n","g","e","s","c","h","r","."," ","W","F",")">>
L_school == <<"n","u","r"," ","S","c","h","u","l","-","/","V","e","r","e","i","n","s","-","/","K","u","r","s","b","e","t","r","i","e","b">>
L_mixed == <<"g","e","m","i","s","c","h","t">>
L_disability == <<"M","e","n","s","c","h","e","n"," ","m","i","t"," ","B","e","h","i","n","d","e","r","u","n","g">>
L_public == <<"o:","f","f","e","n","t","l","."," ","S","c","h","w","i","m","m","e","n">>

----------------------------------------------------------------------------
(* clean_with_check.py: is_valid_entry *)

\* re.search(r'\d{1,2}:\d{2}\s*[-<en dash>]\s*\d{1,2}:\d{2}', entry)
SearchPair(entry) == \E i \in 1..Len(entry) : PairEnd(entry, i) # 0

is_valid_entry(entry) ==
    /\ Len(entry) >= MIN_ENTRY_LEN
    /\ SearchPair(entry)

----------------------------------------------------------------------------
(* clean_with_check.py: clean_entry, one operator per statement *)

\* the weekday whose name stands at index i (case-insensitively), "" if none
WeekdayAt(s, i) ==
    LET hit == {w \in WeekdaySet : HasAtCI(s, i, WeekdayText[w])}
    IN  IF hit = {} THEN "" ELSE CHOOSE w \in hit : TRUE

\* re.sub(rf'^({"|".join(WEEKDAYS)})\s*', '', entry, flags=re.IGNORECASE)
StripLeadingWeekday(s) ==
    LET w == WeekdayAt(s, 1)
    IN  IF w = "" THEN s
        ELSE Slice(s, SkipSpaces(s, Len(WeekdayText[w]) + 1), Len(s))

\* \b(weekday)\b\s+\1\b at index i: the index after the match, or 0
DupWeekdayOf(s, i, w) ==
    IF w = "" \/ IsWordChar(Chr(s, i - 1)) THEN 0
    ELSE LET a == i + Len(WeekdayText[w])
             b == SkipSpaces(s, a)
         IN  IF /\ IsSpace(Chr(s, a))
                /\ HasAtCI(s, b, WeekdayText[w])
                /\ ~IsWordChar(Chr(s, b + Len(WeekdayText[w])))
             THEN b + Len(WeekdayText[w])
             ELSE 0

DupWeekdayEnd(s, i) == DupWeekdayOf(s, i, WeekdayAt(s, i))

\* The substitutions scan like re.sub: find the leftmost match at or after i, copy
\* the text before it, emit the replacement, go on after the match.

\* re.sub(rf'\b({'|'.join(WEEKDAYS)})\b\s+\1\b', r'\1', entry, flags=re.IGNORECASE)
RECURSIVE SubDupWeekday(_, _)
SubDupWeekday(s, i) ==
    LET M == {p \in i..Len(s) : DupWeekdayEnd(s, p) # 0}
    IN  IF M = {} THEN Slice(s, i, Len(s))
        ELSE LET p == SetMin(M)
             IN  Slice(s, i, p - 1)
                 \o SubSeq(s, p, p + Len(WeekdayText[WeekdayAt(s, p)]) - 1)
                 \o SubDupWeekday(s, DupWeekdayEnd(s, p))

IsControl(c) == c \in {"\n", "\t", "\r"}                 \* [\n\t\r]

\* re.sub(r'[\n\t\r]+', ' ', entry)
RECURSIVE SubControl(_, _)
SubControl(s, i) ==
    LET M == {p \in i..Len(s) : IsControl(s[p])}
    IN  IF M = {} THEN Slice(s, i, Len(s))
        ELSE LET p == SetMin(M)
             IN  Slice(s, i, p - 1) \o <<" ">>
                 \o SubControl(s, SetMin({j \in p..(Len(s) + 1) : ~IsControl(Chr(s, j))}))

\* re.sub(r'\s+', ' ', entry)
RECURSIVE SubSpaces(_, _)
SubSpaces(s, i) ==
    LET M == {p \in i..Len(s) : IsSpace(s[p])}
    IN  IF M = {} THEN Slice(s, i, Len(s))
        ELSE LET p == SetMin(M)
             IN  Slice(s, i, p - 1) \o <<" ">> \o SubSpaces(s, SkipSpaces(s, p))

\* \s*[<en dash><em dash>-]\s* at index p: the index after the match, or 0
DashEnd(s, p) ==
    LET j == SkipSpaces(s, p)
    IN  IF IsAnyDash(Chr(s, j)) THEN SkipSpaces(s, j + 1) ELSE 0

\* re.sub(r'\s*[<en dash><em dash>-]\s*', ' - ', entry)
RECURSIVE SubDash(_, _)
SubDash(s, i) ==
    LET M == {p \in i..Len(s) : DashEnd(s, p) # 0}
    IN  IF M = {} THEN Slice(s, i, Len(s))
        ELSE LET p == SetMin(M)
             IN  Slice(s, i, p - 1) \o <<" ", "-", " ">> \o SubDash(s, DashEnd(s, p))

\* [Uu]hr at index i
UhrAt(s, i) == Chr(s, i) \in {"U", "u"} /\ Chr(s, i + 1) = "h" /\ Chr(s, i + 2) = "r"

\* \s+[Uu]hr\s+ at index p: the index after the match, or 0
UhrSpacingEnd(s, p) ==
    LET j == SkipSpaces(s, p)
    IN  IF IsSpace(Chr(s, p)) /\ UhrAt(s, j) /\ IsSpace(Chr(s, j + 3))
        THEN SkipSpaces(s, j + 3)
        ELSE 0

\* re.sub(r'\s+[Uu]hr\s+', ' Uhr ', entry)
RECURSIVE SubUhrSpacing(_, _)
SubUhrSpacing(s, i) ==
    LET M == {p \in i..Len(s) : UhrSpacingEnd(s, p) # 0}
    IN  IF M = {} THEN Slice(s, i, Len(s))
        ELSE LET p == SetMin(M)
             IN  Slice(s, i, p - 1) \o <<" ", "U", "h", "r", " ">>
                 \o SubUhrSpacing(s, UhrSpacingEnd(s, p))

\* re.sub(r'([0-9])([Uu]hr)', r'\1 \2', entry)
RECURSIVE SubDigitUhr(_, _)
SubDigitUhr(s, i) ==
    LET M == {p \in i..Len(s) : IsDigit(s[p]) /\ UhrAt(s, p + 1)}
    IN  IF M = {} THEN Slice(s, i, Len(s))
        ELSE LET p == SetMin(M)
             IN  Slice(s, i, p - 1) \o <<s[p], " ">> \o SubSeq(s, p + 1, p + 3)
                 \o SubDigitUhr(s, p + 4)

\* re.sub(r'[,;\.]+\s*$', '', entry)
SubTrailingJunk(s) ==
    LET keep == {i \in 1..Len(s) : ~IsSpace(s[i])}
        t == IF keep = {} THEN 0 ELSE SetMax(keep)
        p == SetMin({q \in 1..(t + 1) : \A x \in q..t : s[x] \in {",", ";", "."}})
    IN  IF t = 0 \/ s[t] \notin {",", ";", "."} THEN s ELSE SubSeq(s, 1, p - 1)

\* if len(entry) > 120: entry = entry[:120].rsplit(' ', 1)[0]
TruncateEntry(s) ==
    IF Len(s) > ENTRY_MAX_LEN THEN RsplitFirst(SubSeq(s, 1, ENTRY_MAX_LEN)) ELSE s

\* lines 45-49: strip, leading weekday, doubled weekday
CleanWeekdays(entry) == SubDupWeekday(Strip(StripLeadingWeekday(Strip(entry))), 1)

\* lines 52-53: whitespace
CleanWhitespace(entry) == Strip(SubSpaces(SubControl(entry, 1), 1))

\* lines 56-60: time separator and "Uhr" spacing
CleanSeparators(entry) == SubDigitUhr(SubUhrSpacing(SubDash(entry, 1), 1), 1)

clean_entry(entry) ==
    Strip(TruncateEntry(SubTrailingJunk(CleanSeparators(CleanWhitespace(CleanWeekdays(entry))))))

----------------------------------------------------------------------------
(* clean_with_check.py: normalize_description *)

\* the canonical label of a description, or the shortened free text
NormalizedDesc(desc) ==
    LET desc_l == Lower(desc)
    IN  IF desc_l = <<>> THEN <<>>
        ELSE IF \/ Contains(desc_l, K_eingeschraenk_uml)
                \/ Contains(desc_l, K_eingeschraenk)
                \/ Contains(desc_l, K_eingeschr)
        THEN (IF Contains(desc_l, K_oeffent) \/ Contains(desc_l, K_offent)
              THEN L_restricted
              ELSE L_restricted)
        ELSE IF \E k \in {K_schul, K_verein, K_kurs} : Contains(desc_l, k)
        THEN L_school
        ELSE IF Contains(desc_l, K_gemischt)
        THEN L_mixed
        ELSE IF Contains(desc_l, K_menschen_mit_behinderung) \/ Contains(desc_l, K_behinderung)
        THEN L_disability
        ELSE IF Contains(desc_l, K_oeffent) \/ Contains(desc_l, K_offent)
        THEN L_public
        ELSE RsplitFirst(Slice(SplitFirst(SplitFirst(desc, K_Einlass), K_Badeschluss), 1, DESC_MAX_LEN))

\* m = re.match(r"^(\d{1,2}:\d{2}\s*[-<en dash>]\s*\d{1,2}:\d{2}[^\s]*)(?:\s+(.*))?", entry)
\* Group 1 is entry[1..g1end-1]: the time pair and the [^\s]* after it.

\* line 85: (m.group(2) or "").strip(), group 2 being the rest of the line after \s+
Description(entry, g1end) ==
    IF g1end > Len(entry) THEN <<>>
    ELSE LET d0 == SkipSpaces(entry, g1end)
             lineEnd == SetMin({j \in d0..(Len(entry) + 1) :
                                    Chr(entry, j) = "\n" \/ j = Len(entry) + 1})
         IN  Strip(Slice(entry, d0, lineEnd - 1))

\* lines 111-113
WithDescription(time_part, normalized_desc) ==
    IF normalized_desc # <<>> THEN time_part \o <<" ">> \o normalized_desc ELSE time_part

\* lines 84-113 for a match whose group 1 ends before g1end
Normalized(entry, g1end) ==
    WithDescription(Strip(SubSeq(entry, 1, g1end - 1)), NormalizedDesc(Description(entry, g1end)))

normalize_description(entry) ==
    LET p == PairEnd(entry, 1)
    IN  IF p = 0 THEN entry
        ELSE Normalized(entry, SetMin({j \in p..(Len(entry) + 1) :
                                           IsSpace(Chr(entry, j)) \/ j = Len(entry) + 1}))

----------------------------------------------------------------------------
(* clean_with_check.py: main, the candidates of one raw entry (lines 139-158) *)

\* (?=\d{1,2}:\d{2}\s*[-<en dash>]|$) at index r
LookAhead(s, r) ==
    \/ /\ TimeEnd(s, r) # 0
       /\ IsTimeDash(Chr(s, SkipSpaces(s, TimeEnd(s, r))))
    \/ r = Len(s) + 1
    \/ r = Len(s) /\ s[r] = "\n"

\* .*? followed by the lookahead, from index r: the index where the match ends, or 0
LazyEnd(s, r) ==
    MinOr0({x \in r..(Len(s) + 1) : LookAhead(s, x) /\ \A y \in r..(x - 1) : s[y] # "\n"})

\* \s*.*? followed by the lookahead, from index b: \s* gives back spaces while the rest fails
SpacesLazyEnd(s, b) == Rightmost({<<k, LazyEnd(s, k)>> : k \in b..SkipSpaces(s, b)})

\* (?:\s+[Uu]hr) under re.IGNORECASE at index q: the index after the match, or 0
UhrSuffixEnd(s, q) ==
    LET j == SkipSpaces(s, q)
    IN  IF IsSpace(Chr(s, q)) /\ HasAtCI(s, j, <<"u", "h", "r">>) THEN j + 3 ELSE 0

\* multi_pattern at index p: the index after the match, or 0
\* the pattern after the time pair, which ended before q; u is where the
\* optional group (?:\s+[Uu]hr)? ends, 0 if it does not match
MultiRest(s, q, u) ==
    OrElse(IF u # 0 THEN SpacesLazyEnd(s, u) ELSE 0, SpacesLazyEnd(s, q))

MultiTail(s, q) == IF q = 0 THEN 0 ELSE MultiRest(s, q, UhrSuffixEnd(s, q))

MultiEnd(s, p) == MultiTail(s, PairEnd(s, p))

\* multi_pattern.findall(part), scanning from index i
RECURSIVE FindAllMulti(_, _)
FindAllMulti(s, i) ==
    LET M == {p \in i..Len(s) : MultiEnd(s, p) # 0}
    IN  IF M = {} THEN <<>>
        ELSE LET p == SetMin(M)
             IN  <<SubSeq(s, p, MultiEnd(s, p) - 1)>> \o FindAllMulti(s, MultiEnd(s, p))

\* candidates of one semicolon part (lines 153-158)
CandidatesOf(part, submatches) ==
    IF submatches # <<>> THEN StripNonEmpty(submatches) ELSE <<part>>

Candidates(part) == CandidatesOf(part, FindAllMulti(part, 1))

\* the candidates of all semicolon parts of one raw entry, in order (lines 149-150)
RECURSIVE PartsCandidates(_)
PartsCandidates(semiparts) ==
    IF semiparts = <<>> THEN <<>>
    ELSE Candidates(Head(semiparts)) \o PartsCandidates(Tail(semiparts))

RawCandidates(raw_entry) == PartsCandidates(StripNonEmpty(SplitChar(raw_entry, ";")))

----------------------------------------------------------------------------
(* clean_with_check.py: main, one weekday (lines 131-213) *)

\* lines 161-170 for one candidate: the normalized entry, whether it validates,
\* and its deduplication key
Validated(normalized_entry) ==
    [entry |-> normalized_entry,
     valid |-> is_valid_entry(normalized_entry),
     key |-> Lower(normalized_entry)]

Prepare(cand) == Validated(normalize_description(clean_entry(cand)))

RECURSIVE PrepareAll(_)
PrepareAll(candidates) ==
    IF candidates = <<>> THEN <<>>
    ELSE <<Prepare(Head(candidates))>> \o PrepareAll(Tail(candidates))

\* line 144 and lines 149-170 for one raw entry: the closed test and the
\* prepared candidates
PrepareRaw(raw_entry) ==
    IF Contains(Lower(raw_entry), K_geschlossen)
    THEN [closed |-> TRUE, cands |-> <<>>]
    ELSE [closed |-> FALSE, cands |-> PrepareAll(RawCandidates(raw_entry))]

R_multi == <<"0","6",":","3","0"," ","-"," ","1","6",":","0","0"," ","U","h","r"," ","o:","f","f","e","n","t","l","."," ","S","c","h","w","i","m","m","e","n"," ","1","6",":","0","0"," ","-"," ","2","2",":","0","0"," ","U","h","r"," ","K","u","r","s",";"," ","8",":","0","0","-","9",":","0","0">>   \* '06:30 - 16:00 Uhr oeffentl. Schwimmen 16:00 - 22:00 Uhr Kurs; 8:00-9:00'
R_uhr == <<"1","0",":","0","0","-","1","2",":","0","0"," ","U","h","r">>   \* '10:00-12:00 Uhr'
R_uhr_lower == <<"1","0",":","0","0"," ","-"," ","1","2",":","0","0"," ","u","h","r">>   \* '10:00 - 12:00 uhr'
R_closed == <<"G","e","s","c","h","l","o","s","s","e","n">>   \* 'Geschlossen'
R_late == <<"2","5",":","0","0","-","2","6",":","0","0"," ","U","h","r">>   \* '25:00-26:00 Uhr'
R_school == <<"0","9",":","0","0","-","1","0",":","0","0"," ","U","h","r"," ","n","u","r"," ","S","c","h","u","l","-",","," ","V","e","r","e","i","n","s","-",","," ","K","u","r","s","b","e","t","r","i","e","b">>   \* '09:00-10:00 Uhr nur Schul-, Vereins-, Kursbetrieb'
R_ruhetag == <<"R","u","h","e","t","a","g">>   \* 'Ruhetag'

\* the raw entries a weekday list of pools.json is drawn from
RawEntries == {R_uhr, R_uhr_lower, R_multi, R_closed, R_late, R_school, R_ruhetag, UNKNOWN}


\* PrepareRaw tabulated over RawEntries, so that a text is normalized once and
\* not once per state; any other text is prepared directly
PreparedMemo == [r \in RawEntries |-> PrepareRaw(r)]
Prepared(raw_entry) == TableGet(PreparedMemo, raw_entry, PrepareRaw(raw_entry))

\* faulty variant of the validation: every candidate is kept
AddCandidate_unchecked(acc, pc) ==
    IF pc.key \in acc.seen THEN acc
    ELSE [cleaned |-> Append(acc.cleaned, pc.entry), seen |-> acc.seen \cup {pc.key}]

\* lines 166-173: validate and deduplicate one prepared candidate;
\* acc = [cleaned |-> the list so far, seen |-> the set of lowercased keys]
AddCandidate(acc, pc) ==
    IF ~pc.valid THEN acc
    ELSE IF pc.key \in acc.seen THEN acc
    ELSE [cleaned |-> Append(acc.cleaned, pc.entry), seen |-> acc.seen \cup {pc.key}]

RECURSIVE AddCandidates(_, _)
AddCandidates(acc, cands) ==
    IF cands = <<>> THEN acc
    ELSE AddCandidates(AddCandidate(acc, Head(cands)), Tail(cands))

\* lines 139-173: one raw entry
AddPrepared(acc, prepared) ==
    IF prepared.closed
    THEN [acc EXCEPT !.cleaned = Append(@, GESCHLOSSEN)]
    ELSE AddCandidates(acc, prepared.cands)

AddRawEntry(acc, raw_entry) == AddPrepared(acc, Prepared(raw_entry))

RECURSIVE CleanAndValidate(_, _)
CleanAndValidate(acc, raw_entries) ==
    IF raw_entries = <<>> THEN acc
    ELSE CleanAndValidate(AddRawEntry(acc, Head(raw_entries)), Tail(raw_entries))

\* faulty variants of the cap: no truncation at all; the last entries kept
ApplyCap_absent(cleaned) == cleaned
ApplyCap_keep_last(cleaned) ==
    IF Len(cleaned) > MAX_ENTRIES_PER_DAY
    THEN SubSeq(cleaned, Len(cleaned) - MAX_ENTRIES_PER_DAY + 1, Len(cleaned))
    ELSE cleaned

\* lines 175-178: the plausibility cap
ApplyCap(cleaned) ==
    IF Len(cleaned) > MAX_ENTRIES_PER_DAY THEN SubSeq(cleaned, 1, MAX_ENTRIES_PER_DAY) ELSE cleaned

\* faulty variant of the unknown sentinel: raw_count is not consulted
ApplyUnknown_any_empty(cleaned, raw_count) ==
    IF Len(cleaned) = 0 THEN <<UNKNOWN>> ELSE cleaned


\* faulty variant of the unknown sentinel: it also marks a list that kept
\* fewer entries than the raw list had
ApplyUnknown_marking(cleaned, raw_count) ==
    IF Len(cleaned) = 0 /\ raw_count = 0 THEN <<UNKNOWN>>
    ELSE IF Len(cleaned) < raw_count THEN Append(cleaned, UNKNOWN)
    ELSE cleaned

\* lines 180-182: the unknown sentinel
ApplyUnknown(cleaned, raw_count) ==
    IF Len(cleaned) = 0 /\ raw_count = 0 THEN <<UNKNOWN>> ELSE cleaned

\* lines 198-202
start_minutes(e) ==
    LET M == {i \in 1..Len(e) : TimeEnd(e, i) # 0}
    IN  IF M = {} THEN UNPARSED_START
        ELSE LET i == SetMin(M)
             IN  IF TimeEnd(e, i) = i + 5
                 THEN (DigitVal(e[i]) * 10 + DigitVal(e[i + 1])) * 60
                      + DigitVal(e[i + 3]) * 10 + DigitVal(e[i + 4])
                 ELSE DigitVal(e[i]) * 60 + DigitVal(e[i + 2]) * 10 + DigitVal(e[i + 3])

\* [e for e in cleaned if 'nur schul' not in e.lower()]
RECURSIVE DropSchool(_)
DropSchool(cleaned) ==
    IF cleaned = <<>> THEN <<>>
    ELSE (IF Contains(Lower(Head(cleaned)), K_nur_schul) THEN <<>> ELSE <<Head(cleaned)>>)
         \o DropSchool(Tail(cleaned))

\* faulty variant of the weekend preference: applied on every weekday
WeekendOverride_every_day(weekday, cleaned) ==
    IF \E i \in 1..Len(cleaned) :
            \/ Contains(Lower(cleaned[i]), K_oeffent)
            \/ Contains(Lower(cleaned[i]), K_oeffentl)
    THEN DropSchool(cleaned)
    ELSE cleaned

\* lines 204-208: the weekend preference
WeekendOverride(weekday, cleaned) ==
    IF weekday \in {"Samstag", "Sonntag"}
    THEN IF \E i \in 1..Len(cleaned) :
                \/ Contains(Lower(cleaned[i]), K_oeffent)
                \/ Contains(Lower(cleaned[i]), K_oeffentl)
         THEN DropSchool(cleaned)
         ELSE cleaned
    ELSE cleaned

\* list.sort(key=start_minutes): a stable sort, here by insertion
RECURSIVE InsertByStart(_, _)
InsertByStart(sorted, e) ==
    IF sorted = <<>> THEN <<e>>
    ELSE IF start_minutes(sorted[Len(sorted)]) <= start_minutes(e)
         THEN Append(sorted, e)
         ELSE Append(InsertByStart(SubSeq(sorted, 1, Len(sorted) - 1), e), sorted[Len(sorted)])

RECURSIVE SortFrom(_, _)
SortFrom(sorted, rest) ==
    IF rest = <<>> THEN sorted ELSE SortFrom(InsertByStart(sorted, Head(rest)), Tail(rest))

SortByStart(cleaned) == SortFrom(<<>>, cleaned)

\* the list before the cap: lines 136-173
CleanedBeforeCap(raw_entries) ==
    CleanAndValidate([cleaned |-> <<>>, seen |-> {}], raw_entries).cleaned

\* the list stored in pool["hours"][weekday]: lines 131-213
clean_day(weekday, raw_entries) ==
    SortByStart(
        WeekendOverride(weekday,
            ApplyUnknown(ApplyCap(CleanedBeforeCap(raw_entries)), Len(raw_entries))))

----------------------------------------------------------------------------
(* scraper/scrape_pools_fixed.py: parse_pool, the chunk of one weekday (lines 109-156) *)

FIXED_DESC_MAX == 80       \* {0,80} in time_pattern
FIXED_ENTRY_MAX == 150     \* the length limit of one entry
FIXED_MIN_LEN == 10        \* the shortest entry that is kept
K_uhr == <<"u","h","r">>
U_Uhr == <<" ","U","h","r">>

\* (?:\s+[^;,\n]{0,80})? at index q: the index after the (possibly empty) match
FixedDescEnd(s, q) ==
    IF ~IsSpace(Chr(s, q)) THEN q
    ELSE LET b == SkipSpaces(s, q)
             stop == SetMin({j \in b..(Len(s) + 1) : Chr(s, j) \in {";", ",", "\n", ""}})
         IN  IF stop - b > FIXED_DESC_MAX THEN b + FIXED_DESC_MAX ELSE stop

\* time_pattern at index i: the index after the match, or 0
FixedTail(s, q) == IF q = 0 THEN 0 ELSE FixedDescEnd(s, OrElse(UhrSuffixEnd(s, q), q))

FixedTimeEnd(s, i) == FixedTail(s, PairEnd(s, i))

\* time_pattern.findall(chunk), scanning from index i
RECURSIVE FindAllFixed(_, _)
FindAllFixed(s, i) ==
    LET M == {p \in i..Len(s) : FixedTimeEnd(s, p) # 0}
    IN  IF M = {} THEN <<>>
        ELSE LET p == SetMin(M)
             IN  <<SubSeq(s, p, FixedTimeEnd(s, p) - 1)>> \o FindAllFixed(s, FixedTimeEnd(s, p))

\* re.sub(rf'^{weekday}\s*', '', entry, flags=re.IGNORECASE)
StripWeekdayPrefix(entry, weekday) ==
    IF HasAtCI(entry, 1, WeekdayText[weekday])
    THEN Slice(entry, SkipSpaces(entry, Len(WeekdayText[weekday]) + 1), Len(entry))
    ELSE entry

\* entry.rstrip('.,:;')
RstripPunct(s) ==
    LET keep == {i \in 1..Len(s) : s[i] \notin {".", ",", ":", ";"}}
    IN  IF keep = {} THEN <<>> ELSE SubSeq(s, 1, SetMax(keep))

\* entry.split(): the words between runs of whitespace, from index i
RECURSIVE SplitWords(_, _)
SplitWords(s, i) ==
    LET a == SkipSpaces(s, i)
    IN  IF a > Len(s) THEN <<>>
        ELSE LET b == SetMin({j \in a..(Len(s) + 1) : IsSpace(Chr(s, j)) \/ j = Len(s) + 1})
             IN  <<SubSeq(s, a, b - 1)>> \o SplitWords(s, b)

\* lines 142-148: the words that fit, length counting one separator per word
RECURSIVE TakeWords(_, _)
TakeWords(words, length) ==
    IF words = <<>> THEN <<>>
    ELSE IF length + Len(Head(words)) + 1 > FIXED_ENTRY_MAX THEN <<>>
    ELSE <<Head(words)>> \o TakeWords(Tail(words), length + Len(Head(words)) + 1)

\* ' '.join(truncated)
RECURSIVE JoinWords(_)
JoinWords(words) ==
    IF words = <<>> THEN <<>>
    ELSE IF Len(words) = 1 THEN Head(words)
    ELSE Head(words) \o <<" ">> \o JoinWords(Tail(words))

\* lines 124-149: one match of time_pattern made into an entry
\* lines 133-135: add "Uhr" if missing
FixedUhr(entry) ==
    IF ~Contains(Lower(entry), K_uhr) THEN RstripPunct(entry) \o U_Uhr ELSE entry

\* lines 139-149: truncate at a word boundary
FixedTruncate(entry) ==
    IF Len(entry) > FIXED_ENTRY_MAX THEN JoinWords(TakeWords(SplitWords(entry, 1), 0)) ELSE entry

FixedEntry(weekday, match) ==
    FixedTruncate(
        SubTrailingJunk(
            FixedUhr(SubSpaces(Strip(StripWeekdayPrefix(Strip(match), weekday)), 1))))

\* lines 152-156: validate and deduplicate; acc = [hours |-> list, seen |-> keys]
FixedAdd(acc, entry) ==
    IF /\ Len(entry) >= FIXED_MIN_LEN
       /\ \E i \in 1..Len(entry) : TimeEnd(entry, i) # 0
       /\ Lower(entry) \notin acc.seen
    THEN [hours |-> Append(acc.hours, entry), seen |-> acc.seen \cup {Lower(entry)}]
    ELSE acc

RECURSIVE FixedCollect(_, _, _)
FixedCollect(acc, weekday, matches) ==
    IF matches = <<>> THEN acc
    ELSE FixedCollect(FixedAdd(acc, FixedEntry(weekday, Head(matches))), weekday, Tail(matches))

\* lines 109-156: hours[weekday] for the chunk of a weekday
FixedChunkHours(weekday, chunk) ==
    IF Contains(Lower(chunk), K_geschlossen) THEN <<GESCHLOSSEN>>
    ELSE FixedCollect([hours |-> <<>>, seen |-> {}], weekday, FindAllFixed(chunk, 1)).hours

----------------------------------------------------------------------------
(* Bounds and input sets *)

MaxRaw == 3        \* longest raw entry list of one weekday
MaxPasses == 2     \* normalizations of one entry / cleaning passes in a row
MaxUrls == 2       \* URLs of one batch run

\* the weekday lists of the input file
DayLists == UNION {[1..n -> RawEntries] : n \in 0..MaxRaw}

T_plain == <<"1","0",":","0","0","-","1","2",":","0","0">>   \* '10:00-12:00'
T_endash == <<"9",":","0","0"," ","--"," ","1","0",":","3","0">>   \* '9:00 <en dash> 10:30'
T_late == <<"2","5",":","0","0","-","2","6",":","0","0">>   \* '25:00-26:00'
P_weekday == <<"M","o","n","t","a","g"," ">>   \* 'Montag '
U_spaced == <<" ","U","h","r">>   \* ' Uhr'
U_glued == <<"U","h","r">>   \* 'Uhr'
U_upper == <<" ","U","H","R">>   \* ' UHR'
D_hyphen == <<" ","A","q","u","a","-","F","i","t","n","e","s","s">>   \* ' Aqua-Fitness'
D_words == <<" ","A","q","u","a"," ","F","i","t","n","e","s","s"," ","K","i","d","s">>   \* ' Aqua Fitness Kids'
D_public == <<" ","o:","f","f","e","n","t","l","."," ","S","c","h","w","i","m","m","e","n">>   \* ' oeffentl. Schwimmen'
D_school == <<" ","n","u","r"," ","S","c","h","u","l","-",","," ","V","e","r","e","i","n","s","-",","," ","K","u","r","s","b","e","t","r","i","e","b">>   \* ' nur Schul-, Vereins-, Kursbetrieb'
D_restricted == <<" ","e","i","n","g","e","s","c","h","r","."," ","W","a","s","s","e","r","f","l","a:","c","h","e">>   \* ' eingeschr. Wasserflaeche'
D_mixed == <<" ","g","e","m","i","s","c","h","t",".">>   \* ' gemischt.'
D_restricted_public == <<" ","o:","f","f","e","n","t","l","."," ","S","c","h","w","i","m","m","e","n"," ","e","i","n","g","e","s","c","h","r","a:","n","k","t">>   \* ' oeffentl. Schwimmen eingeschraenkt'
D_restricted_school == <<" ","S","c","h","u","l","e"," ","e","i","n","g","e","s","c","h","r",".">>   \* ' Schule eingeschr.'
D_course_public == <<" ","K","u","r","s"," ","u","n","d"," ","o:","f","f","e","n","t","l","."," ","S","c","h","w","i","m","m","e","n">>   \* ' Kurs und oeffentl. Schwimmen'
D_disability == <<" ","S","c","h","w","i","m","m","e","n"," ","m","i","t"," ","B","e","h","i","n","d","e","r","u","n","g">>   \* ' Schwimmen mit Behinderung'
D_einlass == <<" ","S","a","u","n","a"," ","E","i","n","l","a","s","s"," ","b","i","s"," ","1","1",":","0","0">>   \* ' Sauna Einlass bis 11:00'

\* the entry texts normalization is applied to: [weekday] time [Uhr] [description]
EntryInputs ==
    {p \o t \o u \o d :
        p \in {<<>>, P_weekday},
        t \in {T_plain, T_endash, T_late},
        u \in {<<>>, U_spaced, U_glued, U_upper},
        d \in {<<>>, D_hyphen, D_words, D_public, D_school, D_restricted, D_mixed, D_einlass,
                D_restricted_public, D_restricted_school, D_course_public, D_disability}}
    \cup {GESCHLOSSEN, UNKNOWN, R_ruhetag}

----------------------------------------------------------------------------
(* SpecEntry: normalize_description(clean_entry(e)) applied to one entry *)

InitEntry ==
    /\ ent \in EntryInputs
    /\ entPrev = ent
    /\ entPhase = 0
    /\ entBy = "none"
    /\ SysIdle /\ DayIdle /\ ServeIdle /\ SpanIdle /\ TabIdle

NormalizeEntry ==
    /\ entPhase < MaxPasses
    /\ ent' = normalize_description(clean_entry(ent))
    /\ entPrev' = ent
    /\ entPhase' = entPhase + 1
    /\ UNCHANGED <<entBy, sysVars, dayVars, serveVars, spanVars, tabVars>>

NextEntry == NormalizeEntry

SpecEntry == InitEntry /\ [][NextEntry]_vars

----------------------------------------------------------------------------
(* SpecDay: the cleaning of one weekday list, lines 131-213 of main *)

InitDay ==
    /\ dayWd \in WeekdaySet
    /\ dayIn \in DayLists
    /\ dayOut = <<>>
    /\ dayPhase = "raw"
    /\ SysIdle /\ EntIdle /\ ServeIdle /\ SpanIdle /\ TabIdle

CleanDay ==
    /\ dayPhase = "raw"
    /\ dayOut' = clean_day(dayWd, dayIn)
    /\ dayPhase' = "cleaned"
    /\ UNCHANGED <<dayWd, dayIn, sysVars, entVars, serveVars, spanVars, tabVars>>

NextDay == CleanDay

SpecDay == InitDay /\ [][NextDay]_vars

----------------------------------------------------------------------------
(* scraper/scrape_pools.py and scraper/scrape_pools_fixed.py: parse_pool and main *)

Weekend == {"Samstag", "Sonntag"}

\* {wd: [] for wd in WEEKDAYS}
EmptyHours == [wd \in WeekdaySet |-> <<>>]

\* the hours object {} of scrape_pools.main's exception handler
NoHours == [wd \in {} |-> <<>>]

\* dict.get(weekday, [])
HoursGet(hours, weekday) == IF weekday \in DOMAIN hours THEN hours[weekday] ELSE <<>>

\* url.split("/")[-2] if url.endswith("/") else url.split("/")[-1]
UrlName(url) ==
    LET parts == SplitChar(url, "/")
    IN  IF Chr(url, Len(url)) = "/" THEN parts[Len(parts) - 1] ELSE parts[Len(parts)]

\* scrape_pools.py lines 191-200: deduplicate one weekday, first occurrence kept
RECURSIVE DedupeFrom(_, _, _)
DedupeFrom(unique_entries, seen, entries) ==
    IF entries = <<>> THEN unique_entries
    ELSE LET entry_key == Lower(Head(entries))
         IN  IF entry_key \in seen
             THEN DedupeFrom(unique_entries, seen, Tail(entries))
             ELSE DedupeFrom(Append(unique_entries, Head(entries)), seen \cup {entry_key},
                             Tail(entries))

DedupeCaseless(entries) == DedupeFrom(<<>>, {}, entries)

\* scrape_pools.py lines 86-98: the first non-empty of h1, title, strong, url
PoolName(page, url) ==
    IF page.h1 # <<>> THEN page.h1
    ELSE IF page.title # <<>> THEN page.title
    ELSE IF page.strong # <<>> THEN page.strong
    ELSE url

\* scrape_pools_fixed.py lines 65-71
FixedPoolName(page, url) == IF page.h1 # <<>> THEN page.h1 ELSE UrlName(url)

N_failed == <<"(","f","a","i","l","e","d"," ","t","o"," ","f","e","t","c","h",")">>   \* '(failed to fetch)'
N_error == <<"(","e","r","r","o","r",")">>   \* '(error)'

\* scrape_pools.py parse_pool (lines 64-207) for an outcome that does not raise:
\* page.collected is what the three strategies of lines 109-189 put into hours
parse_pool(url, page) ==
    IF page.kind = "fetch_error"
    THEN [name |-> N_failed, hours |-> EmptyHours, source_url |-> url,
          fetched_at |-> "utcnow", error |-> page.error]
    ELSE [name |-> PoolName(page, url),
          hours |-> [wd \in WeekdaySet |-> DedupeCaseless(page.collected[wd])],
          source_url |-> url, fetched_at |-> "utcnow"]

\* faulty variant of main's exception handler: the record carries no error marker
ScrapeRecord_unmarked(url, page) ==
    IF page.kind = "parse_error"
    THEN [name |-> N_error, hours |-> NoHours, source_url |-> url, fetched_at |-> "utcnow"]
    ELSE parse_pool(url, page)

\* scrape_pools.py main, lines 232-245: the record of one URL
ScrapeRecord(url, page) ==
    IF page.kind = "parse_error"
    THEN [name |-> N_error, hours |-> NoHours, source_url |-> url,
          fetched_at |-> "utcnow", error |-> page.error]
    ELSE parse_pool(url, page)

\* scrape_pools_fixed.py parse_pool (lines 50-163) for an outcome that does not raise:
\* page.rest[wd] is the text after the first occurrence of the weekday name up to
\* the next weekday name (lines 87-107), NoChunk when the name does not occur
NoChunk == <<"\n">>
parse_pool_fixed(url, page) ==
    IF page.kind = "fetch_error"
    THEN [name |-> N_failed, hours |-> EmptyHours, source_url |-> url,
          fetched_at |-> "utcnow", error |-> page.error]
    ELSE [name |-> FixedPoolName(page, url),
          hours |-> [wd \in WeekdaySet |->
                        IF page.rest[wd] = NoChunk THEN <<>>
                        ELSE FixedChunkHours(wd, WeekdayText[wd] \o page.rest[wd])],
          source_url |-> url, fetched_at |-> "utcnow"]

\* scrape_pools_fixed.py main, lines 188-200: the record of one URL
FixedScrapeRecord(url, page) ==
    IF page.kind = "parse_error"
    THEN [name |-> N_error, hours |-> EmptyHours, source_url |-> url,
          fetched_at |-> "utcnow", error |-> page.error]
    ELSE parse_pool_fixed(url, page)

----------------------------------------------------------------------------
(* The web: what the scrapers get for a URL *)

U_a == <<"h",":","/","/","b","/","b","a","d","-","a","/">>   \* 'h://b/bad-a/'
U_b == <<"h",":","/","/","b","/","b","a","d","-","b">>   \* 'h://b/bad-b'

\* the URLs of a batch run of n URLs, in command-line order
BatchUrl(i) == IF i % 2 = 1 THEN U_a ELSE U_b

H_bad == <<"S","t","a","d","t","b","a","d">>   \* 'Stadtbad'
H_title == <<"B","a","d"," ","M","i","t","t","e"," ","-"," ","B","e","r","l","i","n","e","r"," ","B","a:","d","e","r">>   \* 'Bad Mitte - Berliner Ba:der'

\* entries as the strategies of scrape_pools.parse_pool collect them
C_swim == <<"1","0",":","0","0"," ","-"," ","1","2",":","0","0"," ","U","h","r"," ","S","c","h","w","i","m","m","e","n">>   \* '10:00 - 12:00 Uhr Schwimmen'
C_swim_upper == <<"1","0",":","0","0"," ","-"," ","1","2",":","0","0"," ","U","H","R"," ","S","C","H","W","I","M","M","E","N">>   \* '10:00 - 12:00 UHR SCHWIMMEN'
C_sauna == <<"1","4",":","0","0"," ","-"," ","1","6",":","0","0"," ","U","h","r"," ","S","a","u","n","a"," ","g","e","s","c","h","l","o","s","s","e","n">>   \* '14:00 - 16:00 Uhr Sauna geschlossen'
C_school == <<"0","9",":","0","0"," ","-"," ","1","0",":","0","0"," ","U","h","r"," ","n","u","r"," ","S","c","h","u","l","-",","," ","V","e","r","e","i","n","s","-",","," ","K","u","r","s","b","e","t","r","i","e","b">>   \* '09:00 - 10:00 Uhr nur Schul-, Vereins-, Kursbetrieb'
C_public == <<"0","9",":","0","0"," ","-"," ","1","7",":","0","0"," ","U","h","r"," ","o:","f","f","e","n","t","l","."," ","S","c","h","w","i","m","m","e","n">>   \* '09:00 - 17:00 Uhr o:ffentl. Schwimmen'
C_early == <<"0","6",":","3","0"," ","-"," ","0","8",":","0","0"," ","U","h","r"," ","F","r","u:","h","s","c","h","w","i","m","m","e","n">>   \* '06:30 - 08:00 Uhr Fru:hschwimmen'
C_late == <<"2","0",":","0","0"," ","-"," ","2","2",":","0","0"," ","U","h","r"," ","K","u","r","s">>   \* '20:00 - 22:00 Uhr Kurs'

\* the text between a weekday name and the next one, as scrape_pools_fixed.parse_pool cuts it
F_swim == <<" ","1","0",":","0","0"," ","-"," ","1","2",":","0","0"," ","U","h","r"," ","S","c","h","w","i","m","m","e","n",","," ","1","4",":","0","0","-","1","5",":","0","0"," ">>   \* ' 10:00 - 12:00 Uhr Schwimmen, 14:00-15:00 '
F_closed == <<" ","g","e","s","c","h","l","o","s","s","e","n"," ">>   \* ' geschlossen '
F_mixed == <<":"," ","0","9",":","0","0"," ","-"," ","1","0",":","0","0"," ","U","h","r"," ","n","u","r"," ","S","c","h","u","l","-",";"," ","0","9",":","0","0"," ","-"," ","1","7",":","0","0"," ","U","h","r"," ","o:","f","f","e","n","t","l","."," ","S","c","h","w","i","m","m","e","n"," ">>   \* ': 09:00 - 10:00 Uhr nur Schul-; 09:00 - 17:00 Uhr o:ffentl. Schwimmen '

ByDay(week, weekend) == [wd \in WeekdaySet |-> IF wd \in Weekend THEN weekend ELSE week]

FetchError == [kind |-> "fetch_error", error |-> "ConnectionError"]
ParseError == [kind |-> "parse_error", error |-> "ParserRejectedMarkup"]
PageA == [kind |-> "page", h1 |-> H_bad, title |-> H_title, strong |-> <<>>,
          collected |-> ByDay(<<C_swim, C_swim_upper>>, <<C_swim, C_sauna>>),
          rest |-> ByDay(F_swim, F_closed)]
PageB == [kind |-> "page", h1 |-> <<>>, title |-> <<>>, strong |-> <<>>,
          collected |-> EmptyHours,
          rest |-> ByDay(NoChunk, NoChunk)]
PageC == [kind |-> "page", h1 |-> <<>>, title |-> H_title, strong |-> <<>>,
          collected |-> ByDay(<<C_late, C_school, C_public, C_swim, C_early>>,
                              <<C_school, C_public>>),
          rest |-> ByDay(F_mixed, F_mixed)]

\* what a fetch of one URL can come to
Outcomes == {FetchError, ParseError, PageA, PageB, PageC}

----------------------------------------------------------------------------
(* clean_with_check.py: main, one pool (lines 126-213) *)

\* clean_day tabulated over the weekday lists the scrapers write and the lists
\* repeated cleaning makes of them; any other list is cleaned directly
ScrapedLists ==
    {<<>>} \cup UNION {Range(ScrapeRecord(U_a, o).hours) \cup Range(FixedScrapeRecord(U_a, o).hours) :
                       o \in Outcomes}
CleanTable(lists) == [k \in WeekdaySet \X lists |-> clean_day(k[1], k[2])]
RECURSIVE CleanClosure(_, _), CleanGrown(_)
CleanClosure(table, lists) ==
    IF lists \subseteq {k[2] : k \in DOMAIN table} THEN table
    ELSE CleanGrown(table @@ CleanTable(lists \ {k[2] : k \in DOMAIN table}))
CleanGrown(table) == CleanClosure(table, Range(table))
CleanDayMemo == CleanClosure(<<>>, ScrapedLists)
CleanDayOf(weekday, raw_entries) ==
    TableGet(CleanDayMemo, <<weekday, raw_entries>>, clean_day(weekday, raw_entries))

\* lines 131-213 for one pool: every weekday of WEEKDAYS is read with
\* hours.get(weekday, []) and stored back
CleanPool(pool) ==
    [pool EXCEPT !.hours = [wd \in WeekdaySet |-> CleanDayOf(wd, HoursGet(pool.hours, wd))]]

----------------------------------------------------------------------------
(* Spec: the scrapers and the cleaner working on data/pools.json *)

\* the records main appends for the i-th URL of a batch, tabulated over the
\* outcomes of the fetch so that a page is parsed once and not once per step
ScrapeTable == [i \in 1..MaxUrls, o \in Outcomes |-> ScrapeRecord(BatchUrl(i), o)]
FixedScrapeTable == [i \in 1..MaxUrls, o \in Outcomes |-> FixedScrapeRecord(BatchUrl(i), o)]

Init ==
    /\ file = NoFile
    /\ passes = 0
    /\ prevFile = NoFile
    /\ batch = <<>>
    /\ DayIdle /\ EntIdle /\ ServeIdle /\ SpanIdle /\ TabIdle

\* scrape_pools.py main with n >= 1 URLs (no URL: return without writing, lines 227-229)
ScrapeMain ==
    \E n \in 1..MaxUrls : \E pages \in [1..n -> Outcomes] :
        /\ file' = [exists |-> TRUE,
                    data |-> [i \in 1..n |-> ScrapeTable[i, pages[i]]]]
        /\ passes' = 0
        /\ prevFile' = NoFile
        /\ batch' = [i \in 1..n |-> [url |-> BatchUrl(i), outcome |-> pages[i]]]
        /\ UNCHANGED <<dayVars, entVars, serveVars, spanVars, tabVars>>

\* scrape_pools_fixed.py main with n >= 1 URLs
ScrapeFixedMain ==
    \E n \in 1..MaxUrls : \E pages \in [1..n -> Outcomes] :
        /\ file' = [exists |-> TRUE,
                    data |-> [i \in 1..n |-> FixedScrapeTable[i, pages[i]]]]
        /\ passes' = 0
        /\ prevFile' = NoFile
        /\ batch' = [i \in 1..n |-> [url |-> BatchUrl(i), outcome |-> pages[i]]]
        /\ UNCHANGED <<dayVars, entVars, serveVars, spanVars, tabVars>>

\* clean_with_check.py main: returns when the file is absent (lines 117-119),
\* else cleans every pool and writes the file back (lines 121-217)
CleanMain ==
    /\ file.exists
    /\ passes < MaxPasses
    /\ file' = [file EXCEPT !.data = [i \in 1..Len(file.data) |-> CleanPool(file.data[i])]]
    /\ passes' = passes + 1
    /\ prevFile' = file
    /\ UNCHANGED <<batch, dayVars, entVars, serveVars, spanVars, tabVars>>

Next == ScrapeMain \/ ScrapeFixedMain \/ CleanMain

Spec == Init /\ [][Next]_vars

----------------------------------------------------------------------------
(* Properties *)

\* the number of times x occurs in the list s
Count(s, x) == Cardinality({i \in 1..Len(s) : s[i] = x})

\* two lists hold the same entries the same number of times
SameEntries(a, b) ==
    /\ Len(a) = Len(b)
    /\ \A x \in Range(a) \cup Range(b) : Count(a, x) = Count(b, x)

\* the valid distinct entries of the raw list, in extraction order
ValidDistinct == CleanedBeforeCap(dayIn)

\* the first entries in extraction order, as many as the cap admits
FirstByExtraction == SubSeq(ValidDistinct, 1, MAX_ENTRIES_PER_DAY)

\* the list of the day before the weekend rule and the sort
BeforeOverride ==
    IF ValidDistinct = <<>> /\ dayIn = <<>> THEN <<UNKNOWN>>
    ELSE IF Len(ValidDistinct) > MAX_ENTRIES_PER_DAY THEN FirstByExtraction
    ELSE ValidDistinct

\* an entry with no HH:MM token has no start
HasStart(e) == \E i \in 1..Len(e) : TimeEnd(e, i) # 0

\* the canonical descriptions of public and of school/club/course-only access
PublicEntry(e) == Contains(e, L_public)
SchoolEntry(e) == Contains(e, L_school)

\* C1: every record a batch run puts into the output collection has an hours
\* object with all seven weekday keys, whether the page parsed, the fetch
\* failed, or an exception was caught in main's loop over the URLs.
C1_AllWeekdayKeys ==
    \A i \in 1..Len(file.data) : DOMAIN file.data[i].hours = WeekdaySet

\* C2: the cleaning pass run on a collection that is itself the output of the
\* cleaning pass changes nothing.
C2_CleanIdempotent == passes >= 2 => file = prevFile

\* C3: entry normalization is idempotent: N(N(e)) = N(e) for
\* N(e) = normalize_description(clean_entry(e)).
C3_NormalizeIdempotent == entPhase >= 2 => ent = entPrev

\* C4: after cleaning, a weekday whose raw list had no entries holds exactly
\* ["?"], and a weekday whose raw list was non-empty with every entry failing
\* validation holds the empty list.
C4_UnknownVersusEmpty ==
    dayPhase = "cleaned" =>
        /\ dayIn = <<>> => dayOut = <<UNKNOWN>>
        /\ (/\ dayIn # <<>>
            /\ \A i \in 1..Len(dayIn) :
                  /\ ~Prepared(dayIn[i]).closed
                  /\ \A j \in 1..Len(Prepared(dayIn[i]).cands) :
                        ~Prepared(dayIn[i]).cands[j].valid)
           => dayOut = <<>>

\* a day with two raw entries, both failing validation, has been cleaned to []
C4_Witness ==
    /\ dayPhase = "cleaned"
    /\ dayIn = <<R_ruhetag, UNKNOWN>>
    /\ dayOut = <<>>

\* C5: a weekday with a raw entry containing the closed keyword ends with
\* exactly ["Geschlossen"]: no time entry beside it, no second "Geschlossen".
C5_ClosedAlone ==
    (/\ dayPhase = "cleaned"
     /\ \E i \in 1..Len(dayIn) : Contains(Lower(dayIn[i]), K_geschlossen))
    => dayOut = <<GESCHLOSSEN>>

\* C6: in a cleaned weekday list no two entries are equal under
\* case-insensitive comparison, sentinel entries included.
C6_NoCaselessDuplicates ==
    dayPhase = "cleaned" =>
        \A i, j \in 1..Len(dayOut) : i # j => Lower(dayOut[i]) # Lower(dayOut[j])

\* C7: after cleaning, a weekday list has at most MAX_ENTRIES_PER_DAY entries,
\* whatever the raw entries; the day is always cleaned.
C7_AtMostCap == dayPhase = "cleaned" => Len(dayOut) <= MAX_ENTRIES_PER_DAY

\* a day with more valid distinct entries than the cap has been cleaned to a full list
C7_Witness ==
    /\ dayPhase = "cleaned"
    /\ Len(ValidDistinct) > MAX_ENTRIES_PER_DAY
    /\ Len(dayOut) = MAX_ENTRIES_PER_DAY

\* C8 as stated: with more valid distinct raw entries than the cap, the cleaned
\* list is exactly the first four in extraction order, in their original
\* relative order.
C8_FirstFourInOriginalOrder ==
    (dayPhase = "cleaned" /\ Len(ValidDistinct) > MAX_ENTRIES_PER_DAY)
    => dayOut = FirstByExtraction

\* C8 amended: with more valid distinct raw entries than the cap, the cleaned
\* list holds the first four in extraction order and nothing else, less the
\* school-only entries the weekend rule removes on Saturday and Sunday; on
\* Monday to Friday it has exactly four entries.  Their order is the sorted one,
\* not the original one.
C8_FirstFourKept ==
    (dayPhase = "cleaned" /\ Len(ValidDistinct) > MAX_ENTRIES_PER_DAY)
    => LET public == \E i \in 1..Len(FirstByExtraction) :
                         Contains(Lower(FirstByExtraction[i]), K_oeffent)
           Kept(e) == ~(/\ dayWd \in Weekend
                        /\ public
                        /\ Contains(Lower(e), K_nur_schul))
       IN  /\ SameEntries(dayOut, SelectSeq(FirstByExtraction, Kept))
           /\ dayWd \notin Weekend => Len(dayOut) = MAX_ENTRIES_PER_DAY

\* on a weekday a capped list has been emitted in an order other than the original
C8_Witness ==
    /\ dayPhase = "cleaned"
    /\ dayWd = "Dienstag"
    /\ Len(ValidDistinct) > MAX_ENTRIES_PER_DAY
    /\ Len(dayOut) = MAX_ENTRIES_PER_DAY
    /\ dayOut # FirstByExtraction

\* C9: a cleaned weekday list is ascending by start minute-of-day, and every
\* entry without a parseable start comes after every entry with one, for every
\* start of the HH:MM shape.
C9_SortedUnparsedLast ==
    dayPhase = "cleaned" =>
        \A i, j \in 1..Len(dayOut) :
            i < j =>
                /\ (HasStart(dayOut[i]) /\ HasStart(dayOut[j]))
                   => start_minutes(dayOut[i]) <= start_minutes(dayOut[j])
                /\ ~(~HasStart(dayOut[i]) /\ HasStart(dayOut[j]))

\* C10: on Saturday and Sunday, if an entry of the day indicates public access,
\* the final list holds no school/club/course-only entry and every other entry
\* stays; on Monday to Friday the rule removes nothing.
C10_WeekendOverride ==
    dayPhase = "cleaned" =>
        /\ (dayWd \in Weekend /\ \E i \in 1..Len(BeforeOverride) : PublicEntry(BeforeOverride[i]))
           => /\ \A i \in 1..Len(dayOut) : ~SchoolEntry(dayOut[i])
              /\ \A i \in 1..Len(BeforeOverride) :
                    ~Contains(Lower(BeforeOverride[i]), K_nur_schul)
                    => Count(dayOut, BeforeOverride[i]) = Count(BeforeOverride, BeforeOverride[i])
        /\ dayWd \notin Weekend => SameEntries(dayOut, BeforeOverride)

\* a Saturday with a public and a school-only entry has lost the school-only one
C10_Witness ==
    /\ dayPhase = "cleaned"
    /\ dayWd = "Samstag"
    /\ \E i \in 1..Len(BeforeOverride) : PublicEntry(BeforeOverride[i])
    /\ \E i \in 1..Len(BeforeOverride) : SchoolEntry(BeforeOverride[i])
    /\ dayOut # <<>>
    /\ \A i \in 1..Len(dayOut) : ~SchoolEntry(dayOut[i])

\* C11: when the fetch of a page fails, its record in the collection has a
\* populated error field and an empty list for each of the seven weekdays, as
\* parse_pool returns it and as it is persisted after the cleaning pass.
C11_FetchFailureShell ==
    file.exists =>
        \A i \in 1..Len(file.data) :
            batch[i].outcome.kind = "fetch_error" =>
                /\ "error" \in DOMAIN file.data[i]
                /\ file.data[i].error # ""
                /\ DOMAIN file.data[i].hours = WeekdaySet
                /\ \A wd \in WeekdaySet : file.data[i].hours[wd] = <<>>

\* C12: a batch run over N >= 1 URLs writes exactly N records, one per URL and
\* in URL order; a page whose fetch or parsing fails contributes a record with
\* an error marker, and the records of the other URLs are written all the same.
C12_OneRecordPerUrl ==
    file.exists =>
        /\ Len(file.data) = Len(batch)
        /\ \A i \in 1..Len(batch) :
              /\ file.data[i].source_url = batch[i].url
              /\ batch[i].outcome.kind \in {"fetch_error", "parse_error"}
                 <=> "error" \in DOMAIN file.data[i]

\* a batch of two URLs, the first failing in parse_pool, has written both records
C12_Witness ==
    /\ file.exists
    /\ passes = 0
    /\ Len(batch) = 2
    /\ batch[1].outcome.kind = "parse_error"
    /\ batch[2].outcome.kind = "page"
    /\ Len(file.data) = 2
    /\ "error" \in DOMAIN file.data[1]
    /\ file.data[2].source_url = U_b
    /\ file.data[2].name # N_error

----------------------------------------------------------------------------
(* The service and the writers of data/pools.json: api/index.py and
   api/main.py get_pools, and the write of the collection by write_json of
   both scrapers and by the write-back of clean_with_check. *)

MaxServe == 2      \* records of a collection that is written and served

\* JSON values as json.dump takes them and json.load returns them
JStr(s) == [t |-> "str", s |-> s, items |-> <<>>]
JList(items) == [t |-> "list", s |-> <<>>, items |-> items]
JDict(members) == [t |-> "dict", s |-> <<>>, items |-> members]

\* the indentation json.dump writes in front of an item at a nesting level
Indent(level) == [i \in 1..(2 * level) |-> " "]

RECURSIVE Dump(_, _)
RECURSIVE DumpItems(_, _, _)

\* the text of the k-th item of a list or of a dict
DumpItem(v, k, level) ==
    IF v.t = "list" THEN Dump(v.items[k], level)
    ELSE <<"\"">> \o v.items[k][1] \o <<"\"", ":", " ">> \o Dump(v.items[k][2], level)

\* the items from the k-th on, each on a line of its own
DumpItems(v, k, level) ==
    IF k > Len(v.items) THEN <<>>
    ELSE (IF k > 1 THEN <<",">> ELSE <<>>) \o <<"\n">> \o Indent(level)
         \o DumpItem(v, k, level) \o DumpItems(v, k + 1, level)

\* json.dump(data, f, ensure_ascii=False, indent=2): the text written for a value
Dump(v, level) ==
    IF v.t = "str" THEN <<"\"">> \o v.s \o <<"\"">>
    ELSE IF v.items = <<>> THEN (IF v.t = "list" THEN <<"[", "]">> ELSE <<"{", "}">>)
    ELSE <<(IF v.t = "list" THEN "[" ELSE "{")>> \o DumpItems(v, 1, level + 1)
         \o <<"\n">> \o Indent(level) \o <<(IF v.t = "list" THEN "]" ELSE "}")>>

\* encoding="utf-8": the bytes of the characters that are not ASCII
Utf8 ==
    [c \in {"a:", "o:", "u:", "A:", "O:", "U:", "ss", "--", "---"} |->
        CASE c = "a:" -> <<"xC3", "xA4">>
          [] c = "o:" -> <<"xC3", "xB6">>
          [] c = "u:" -> <<"xC3", "xBC">>
          [] c = "A:" -> <<"xC3", "x84">>
          [] c = "O:" -> <<"xC3", "x96">>
          [] c = "U:" -> <<"xC3", "x9C">>
          [] c = "ss" -> <<"xC3", "x9F">>
          [] c = "--" -> <<"xE2", "x80", "x93">>
          [] c = "---" -> <<"xE2", "x80", "x94">>]

\* the bytes that continue a character, and the number of them a first byte announces
Utf8Continuation == {"xA4", "xB6", "xBC", "x84", "x96", "x9C", "x9F", "x80", "x93", "x94"}
Utf8Following(b) == IF b = "xC3" THEN 1 ELSE IF b = "xE2" THEN 2 ELSE 0

RECURSIVE Encode(_)
\* the bytes the text file object writes for a text: the bytes of its
\* characters one after the other (the text is halved to keep the nesting low)
Encode(s) ==
    IF s = <<>> THEN <<>>
    ELSE IF Len(s) = 1 THEN (IF s[1] \in DOMAIN Utf8 THEN Utf8[s[1]] ELSE <<s[1]>>)
    ELSE Encode(SubSeq(s, 1, Len(s) \div 2)) \o Encode(SubSeq(s, Len(s) \div 2 + 1, Len(s)))

\* the character a complete byte group stands for
Utf8Char(group) ==
    IF Len(group) = 1 THEN group[1]
    ELSE IF \E c \in DOMAIN Utf8 : Utf8[c] = group
         THEN CHOOSE c \in DOMAIN Utf8 : Utf8[c] = group
         ELSE "xFFFD"

\* a character starts at byte i and all its bytes are there
Utf8Whole(b, i) ==
    /\ b[i] \notin Utf8Continuation
    /\ i + Utf8Following(b[i]) <= Len(b)
    /\ \A j \in (i + 1)..(i + Utf8Following(b[i])) : b[j] \in Utf8Continuation

\* byte j continues a character that starts at one of the two bytes before it
Utf8Covered(b, j) ==
    \E i \in (j - 2)..(j - 1) : i >= 1 /\ b[i] \notin Utf8Continuation /\ j <= i + Utf8Following(b[i])

\* the decoder goes from character to character: it succeeds when every byte
\* that starts a character starts a whole one and every other byte continues one
Utf8Valid(b) ==
    \A i \in 1..Len(b) : IF b[i] \in Utf8Continuation THEN Utf8Covered(b, i) ELSE Utf8Whole(b, i)

\* the positions where the characters start
Utf8Starts(b) == SelectSeq([i \in 1..Len(b) |-> i], LAMBDA i : b[i] \notin Utf8Continuation)

\* f.read() of a file opened with encoding="utf-8", read from starts: the
\* text, or UnicodeDecodeError
DecodeFrom(b, starts, valid) ==
    IF ~valid THEN [ok |-> FALSE, text |-> <<>>]
    ELSE [ok |-> TRUE,
          text |-> [k \in 1..Len(starts) |->
                      Utf8Char(SubSeq(b, starts[k], starts[k] + Utf8Following(b[starts[k]])))]]

Decode(b) == DecodeFrom(b, Utf8Starts(b), Utf8Valid(b))

\* json.decoder WHITESPACE
JsonSpace == {" ", "\n", "\t", "\r"}

RECURSIVE SkipSpace(_, _)
\* the first position from i on that holds no whitespace
SkipSpace(s, i) == IF i <= Len(s) /\ s[i] \in JsonSpace THEN SkipSpace(s, i + 1) ELSE i

\* a value that was parsed up to position pos (exclusive), or JSONDecodeError
Parsed(val, pos) == [ok |-> TRUE, pos |-> pos, val |-> val]
ParseFailed == [ok |-> FALSE, pos |-> 0, val |-> JStr(<<>>)]

\* the position of the quote that closes the string opened at i, 0 if there is none
ClosingQuote(s, i) == MinOr0({j \in (i + 1)..Len(s) : s[j] = "\""})

\* a string literal at i, the closing quote at j; a control character inside it is an error
ParseStringTo(s, i, j) ==
    IF j = 0 \/ \E k \in (i + 1)..(j - 1) : s[k] \in {"\n", "\t", "\r"} THEN ParseFailed
    ELSE Parsed(JStr(SubSeq(s, i + 1, j - 1)), j + 1)

ParseString(s, i) ==
    IF i <= Len(s) /\ s[i] = "\"" THEN ParseStringTo(s, i, ClosingQuote(s, i)) ELSE ParseFailed

RECURSIVE ParseValue(_, _)
RECURSIVE ParseElements(_, _, _)
RECURSIVE ParseMembers(_, _, _)

\* after an element r of an array: a comma and the next element, or the closing bracket at k
AfterElement(s, r, k, acc) ==
    IF ~r.ok \/ k > Len(s) THEN ParseFailed
    ELSE IF s[k] = "," THEN ParseElements(s, SkipSpace(s, k + 1), Append(acc, r.val))
    ELSE IF s[k] = "]" THEN Parsed(JList(Append(acc, r.val)), k + 1)
    ELSE ParseFailed

AfterElementOf(s, r, acc) == AfterElement(s, r, IF r.ok THEN SkipSpace(s, r.pos) ELSE 0, acc)

\* the elements of an array from position i on, acc the elements before
ParseElements(s, i, acc) == AfterElementOf(s, ParseValue(s, i), acc)

\* after a member of an object, key its name and r its value
AfterMember(s, key, r, k, acc) ==
    IF ~r.ok \/ k > Len(s) THEN ParseFailed
    ELSE IF s[k] = "," THEN ParseMembers(s, SkipSpace(s, k + 1), Append(acc, <<key.val.s, r.val>>))
    ELSE IF s[k] = "}" THEN Parsed(JDict(Append(acc, <<key.val.s, r.val>>)), k + 1)
    ELSE ParseFailed

AfterMemberOf(s, key, r, acc) ==
    AfterMember(s, key, r, IF r.ok THEN SkipSpace(s, r.pos) ELSE 0, acc)

\* after the name of a member: a colon at k and the value
AfterKey(s, key, k, acc) ==
    IF ~key.ok \/ k > Len(s) \/ s[k] # ":" THEN ParseFailed
    ELSE AfterMemberOf(s, key, ParseValue(s, SkipSpace(s, k + 1)), acc)

AfterKeyOf(s, key, acc) == AfterKey(s, key, IF key.ok THEN SkipSpace(s, key.pos) ELSE 0, acc)

\* the members of an object from position i on, acc the members before
ParseMembers(s, i, acc) == AfterKeyOf(s, ParseString(s, i), acc)

\* an array or an object whose opening bracket is before position j
ParseOpened(s, open, j) ==
    IF j <= Len(s) /\ open = "[" /\ s[j] = "]" THEN Parsed(JList(<<>>), j + 1)
    ELSE IF j <= Len(s) /\ open = "{" /\ s[j] = "}" THEN Parsed(JDict(<<>>), j + 1)
    ELSE IF open = "[" THEN ParseElements(s, j, <<>>)
    ELSE ParseMembers(s, j, <<>>)

\* the JSON value that starts at position i
ParseValue(s, i) ==
    IF i > Len(s) THEN ParseFailed
    ELSE IF s[i] = "\"" THEN ParseString(s, i)
    ELSE IF s[i] \in {"[", "{"} THEN ParseOpened(s, s[i], SkipSpace(s, i + 1))
    ELSE ParseFailed

\* the document is one value and whitespace, nothing else
WholeDocument(s, r) == IF r.ok /\ SkipSpace(s, r.pos) > Len(s) THEN r ELSE ParseFailed

\* json.loads of a text: the value, or JSONDecodeError
Loads(s) == WholeDocument(s, ParseValue(s, SkipSpace(s, 1)))

\* one record of the collection, and the collections that are written
ServeRecord == JDict(<< <<(<<"n", "a", "m", "e">>), JStr(<<"B", "a:", "d">>)>> >>)
ServeData == {JList([i \in 1..n |-> ServeRecord]) : n \in 0..MaxServe}

\* the programs that write data/pools.json
Writers == {"write_json", "clean_with_check"}

\* files that were not written by these programs: a JSON document that is
\* not an array, an array, and bytes that are no UTF-8 text
PlacedFiles ==
    {[bytes |-> Encode(Dump(v, 0)), full |-> TRUE, val |-> v] : v \in ServeData \cup {ServeRecord}}
    \cup {[bytes |-> <<"[", "xB6", "]">>, full |-> FALSE, val |-> JStr(<<>>)]}

NoDisk == [kind |-> "absent", bytes |-> <<>>, by |-> "none", full |-> FALSE, val |-> JStr(<<>>)]
NoWriter == [pc |-> "idle", who |-> "none", bytes |-> <<>>, done |-> 0]
NoResponse == [status |-> 0, detail |-> "", body |-> JStr(<<>>), saw |-> NoDisk]

\* get_pools after json.load returned or raised JSONDecodeError
AnswerLoaded(d, r) ==
    IF ~r.ok THEN [status |-> 502, detail |-> "invalid JSON", body |-> JStr(<<>>), saw |-> d]
    ELSE IF r.val.t # "list"
        THEN [status |-> 502, detail |-> "expected list", body |-> JStr(<<>>), saw |-> d]
    ELSE [status |-> 200, detail |-> "", body |-> r.val, saw |-> d]

\* get_pools after the file was read: UnicodeDecodeError is not caught and the
\* framework answers 500
AnswerRead(d, text) ==
    IF ~text.ok THEN [status |-> 500, detail |-> "UnicodeDecodeError", body |-> JStr(<<>>), saw |-> d]
    ELSE AnswerLoaded(d, Loads(text.text))

\* the answer of get_pools when it finds the file as d
Answer(d) ==
    IF d.kind = "absent"
    THEN [status |-> 503, detail |-> "pools.json missing", body |-> JStr(<<>>), saw |-> d]
    ELSE AnswerRead(d, Decode(d.bytes))

\* get_pools: one request, answered from the file as it is at this instant
get_pools ==
    /\ response' = Answer(disk)
    /\ UNCHANGED <<disk, writer, pass, sysVars, dayVars, entVars, spanVars, tabVars>>

\* DATA_PATH.open("w", encoding="utf-8"): the file is created or emptied
WriteOpen ==
    /\ writer.pc = "idle"
    /\ \E who \in Writers, data \in ServeData :
          /\ writer' = [pc |-> "open", who |-> who, bytes |-> Encode(Dump(data, 0)), done |-> 0]
          /\ disk' = [kind |-> "file", bytes |-> <<>>, by |-> who, full |-> FALSE, val |-> data]
    /\ UNCHANGED <<response, pass, sysVars, dayVars, entVars, spanVars, tabVars>>

\* json.dump in progress: the buffer is flushed, some more bytes reach the file
WriteFlush ==
    /\ writer.pc = "open"
    /\ \E k \in (writer.done + 1)..Len(writer.bytes) :
          /\ writer' = [writer EXCEPT !.done = k]
          /\ disk' = [disk EXCEPT !.bytes = SubSeq(writer.bytes, 1, k),
                                  !.full = (k = Len(writer.bytes))]
    /\ UNCHANGED <<response, pass, sysVars, dayVars, entVars, spanVars, tabVars>>

\* the end of the with block: the rest is written and the file is closed
WriteClose ==
    /\ writer.pc = "open"
    /\ writer' = NoWriter
    /\ disk' = [disk EXCEPT !.bytes = writer.bytes, !.full = TRUE]
    /\ UNCHANGED <<response, pass, sysVars, dayVars, entVars, spanVars, tabVars>>

\* the file is put in place by a deployment, not by one of the writers
PlaceFile ==
    /\ writer.pc = "idle"
    /\ \E f \in PlacedFiles :
          disk' = [kind |-> "file", bytes |-> f.bytes, by |-> "deployment",
                   full |-> f.full, val |-> f.val]
    /\ UNCHANGED <<writer, response, pass, sysVars, dayVars, entVars, spanVars, tabVars>>

InitServe == SysIdle /\ DayIdle /\ EntIdle /\ ServeIdle /\ SpanIdle /\ TabIdle

NextServe == get_pools \/ WriteOpen \/ WriteFlush \/ WriteClose \/ PlaceFile

SpecServe == InitServe /\ [][NextServe]_vars

\* the bytes are a JSON document whose top-level value is an array
ReadsAsList(b) == Decode(b).ok /\ Loads(Decode(b).text).ok /\ Loads(Decode(b).text).val.t = "list"

\* C13: data/pools.json is a syntactically valid JSON array at every instant a
\* reader can open it: while a writer of the collection is at work the file is
\* never empty or partly written, and no get_pools request is answered 502 for
\* a file the writers wrote.
C13_AlwaysValidArray ==
    /\ (disk.kind = "file" /\ disk.by \in Writers) => ReadsAsList(disk.bytes)
    /\ (response.status = 502) => (response.saw.by \notin Writers)

\* the file holds what json.dump was to write for an array, or that of it
\* which was written: all of val's text, and val is an array
HoldsList(d) == d.kind = "file" /\ d.full /\ d.val.t = "list"

\* C14: get_pools answers 503 exactly when the file is absent, 502 exactly
\* when it exists and is not valid JSON or its top-level value is not a list,
\* and otherwise 200 with the stored list; the request leaves the file alone.
C14_StatusByFile ==
    response.status # 0 =>
        /\ (response.status = 503) <=> (response.saw.kind = "absent")
        /\ (response.status = 502) <=> (response.saw.kind = "file" /\ ~HoldsList(response.saw))
        /\ HoldsList(response.saw) => (response.status = 200 /\ response.body = response.saw.val)

----------------------------------------------------------------------------
(* Structural extraction from the opening hours table:
   extract_opening_hours_structural.py extract_opening_hours and
   extract_opening_hours_alternative, extract_hours_minimal.py
   parse_opening_hours_table. A table is [caption, header, rows]: header the
   texts of the cells of the first row, rows the data rows, a data cell the
   list of its text lines. *)

MaxFilled == 2     \* data cells of a row that hold text

K_ruhetag == <<"r","u","h","e","t","a","g">>                 \* 'ruhetag'
K_dash == <<"-">>                                            \* '-'
K_nur == <<"n","u","r">>                                     \* 'nur'
K_inklusive == <<"i","n","k","l","u","s","i","v","e">>       \* 'inklusive'

Extractors == {"extract_opening_hours", "parse_opening_hours_table",
               "extract_opening_hours_alternative"}

RECURSIVE JoinWith(_, _)
\* sep.join(texts)
JoinWith(texts, sep) ==
    IF texts = <<>> THEN <<>>
    ELSE IF Len(texts) = 1 THEN texts[1]
    ELSE texts[1] \o sep \o JoinWith(Tail(texts), sep)

\* table.get_text(): all the text of the table
TableText(t) ==
    t.caption \o JoinWith(t.header, <<>>)
    \o JoinWith([r \in 1..Len(t.rows) |->
                    JoinWith([c \in 1..Len(t.rows[r]) |-> JoinWith(t.rows[r][c], <<>>)], <<>>)], <<>>)

\* day.lower()[:n]
DayAbbr(k, n) == SubSeq(Lower(WeekdayText[WEEKDAYS[k]]), 1, n)

\* the first weekday, in the order of the week, whose abbreviation of n letters
\* or whose name is in the lower-case text of a header cell; 0 if there is none
FirstDay(cell_text, n) ==
    MinOr0({k \in 1..Len(WEEKDAYS) :
               \/ Contains(cell_text, DayAbbr(k, n))
               \/ Contains(cell_text, Lower(WeekdayText[WEEKDAYS[k]]))})

\* the letters of the abbreviation a function looks for in a header cell
AbbrLen(by) == IF by = "extract_opening_hours" THEN 3 ELSE 2

\* the last weekday, in the order of the week, whose abbreviation of two letters
\* is in the lower-case text of a header cell, 0 if there is none: the value a
\* dict comprehension keeps for a key it meets more than once
LastDay(cell_text) ==
    LET hit == {k \in 1..Len(WEEKDAYS) : Contains(cell_text, DayAbbr(k, 2))}
    IN  IF hit = {} THEN 0 ELSE SetMax(hit)

\* the weekday of the header cell of column c, 0 if it names none
HeaderDay(by, header, c) ==
    IF by = "get_pool_hours_clean" THEN LastDay(Lower(header[c]))
    ELSE FirstDay(Lower(header[c]), AbbrLen(by))

\* the weekday whose entries a function takes from column c, 0 if none:
\* column_to_day / column_to_weekday / column_mapping, and the positional
\* fallback when the header gave no mapping at all
DayOfColumn(by, header, c) ==
    IF \E d \in 1..Len(header) : HeaderDay(by, header, d) # 0
    THEN IF /\ by = "extract_opening_hours_alternative"
            /\ \E d \in (c + 1)..Len(header) : HeaderDay(by, header, d) = HeaderDay(by, header, c)
         THEN 0
         ELSE HeaderDay(by, header, c)
    ELSE IF Len(header) >= 7 /\ c <= 7 THEN c
    ELSE 0

\* the table is the one a function extracts from
Qualifies(by, t) ==
    IF by = "extract_opening_hours_alternative"
    THEN /\ Len(t.header) >= 7
         /\ \E k \in 1..Len(WEEKDAYS) : Contains(Lower(JoinWith(t.header, <<" ">>)), DayAbbr(k, 2))
    ELSE \E k \in 1..Len(WEEKDAYS) : Contains(Lower(TableText(t)), Lower(WeekdayText[WEEKDAYS[k]]))

\* the entries a function takes from one data cell
KeptLines(by, cell) ==
    IF by = "extract_opening_hours"
    THEN IF cell = <<>> \/ Lower(JoinWith(cell, <<"\n">>)) = K_geschlossen THEN <<>>
         ELSE SelectSeq(cell, LAMBDA l : ~HasAt(Lower(l), 1, K_nur) /\ ~HasAt(Lower(l), 1, K_inklusive))
    ELSE IF by = "parse_opening_hours_table"
    THEN IF cell = <<>> \/ Lower(JoinWith(cell, <<"\n">>)) \in {K_geschlossen, K_dash, K_ruhetag}
         THEN <<>>
         ELSE SelectSeq(cell, LAMBDA l : Lower(l) \notin {K_geschlossen, K_dash})
    ELSE IF by = "get_pool_hours_clean"
    THEN IF cell = <<>> \/ Lower(JoinWith(cell, <<"\n">>)) \in {K_geschlossen, K_dash, K_ruhetag}
         THEN <<>>
         ELSE cell
    ELSE SelectSeq(cell, LAMBDA l : Lower(l) \notin {K_geschlossen, K_dash, K_ruhetag})

\* the entries of weekday k taken from one data row, column after column,
\* days[c] the weekday of column c
RowLines(by, days, row, k) ==
    JoinWith([c \in 1..Len(row) |->
                 IF c <= Len(days) /\ days[c] = k THEN KeptLines(by, row[c]) ELSE <<>>], <<>>)

\* the entries of every weekday taken from the data rows of the table
ExtractRows(by, t, days) ==
    [wd \in WeekdaySet |->
        JoinWith([r \in 1..Len(t.rows) |->
                     RowLines(by, days, t.rows[r],
                              CHOOSE k \in 1..Len(WEEKDAYS) : WEEKDAYS[k] = wd)], <<>>)]

\* header rows: the abbreviations, the names, cells that name no weekday
\* (seven and six of them), and one name among cells that name none
HeadAbbr == [k \in 1..Len(WEEKDAYS) |-> SubSeq(WeekdayText[WEEKDAYS[k]], 1, 2)]
HeadFull == [k \in 1..Len(WEEKDAYS) |-> WeekdayText[WEEKDAYS[k]]]
HeadPlain(n) == [c \in 1..n |-> <<DigitChars[c + 1]>>]
HeadOneName == [HeadPlain(7) EXCEPT ![3] = WeekdayText["Montag"]]
Headers == {HeadAbbr, HeadFull, HeadPlain(7), HeadPlain(6), HeadOneName}

\* the weekday of each column of a header row; tabulated over Headers, so that
\* a header row is matched once and not once per state
RECURSIVE ColumnDaysFrom(_, _, _)
ColumnDaysFrom(by, header, c) ==
    IF c > Len(header) THEN <<>>
    ELSE <<DayOfColumn(by, header, c)>> \o ColumnDaysFrom(by, header, c + 1)
ColumnDays(by, header) == ColumnDaysFrom(by, header, 1)
ColumnDaysMemo == <<>> @@ [key \in Extractors \X Headers |-> ColumnDays(key[1], key[2])]

\* the opening hours a function returns for a page with the table t
ExtractTable(by, t) ==
    IF ~Qualifies(by, t) THEN [wd \in WeekdaySet |-> <<>>]
    ELSE ExtractRows(by, t, TableGet(ColumnDaysMemo, <<by, t.header>>, ColumnDays(by, t.header)))

\* the caption of the table: none, or one with weekday names in it
Captions == {<<>>, WeekdayText["Montag"] \o <<" ", "b", "i", "s", " ">> \o WeekdayText["Sonntag"]}

\* a time entry of column c, and a line that starts with 'nur'
EntryLine(c) == <<"0", DigitChars[c + 1], ":", "3", "0", " ", "-", " ", "0", "8", ":", "0", "0", " ", "U", "h", "r">>
NurLine == <<"n", "u", "r", " ", "S", "c", "h", "u", "l", "e">>

\* the data cells of column c: empty, one entry, closed, an entry and a line
\* that starts with 'nur', the same entry twice
CellKinds == {"empty", "entry", "closed", "entry_nur", "twice"}
CellOf(c, kind) ==
    CASE kind = "empty" -> <<>>
      [] kind = "entry" -> <<EntryLine(c)>>
      [] kind = "closed" -> <<(<<"G">> \o Tail(K_geschlossen))>>
      [] kind = "entry_nur" -> <<EntryLine(c), NurLine>>
      [] kind = "twice" -> <<EntryLine(c), EntryLine(c)>>

\* the data rows of n cells, at most MaxFilled of them with text
RowsOf(n) ==
    {[c \in 1..n |-> CellOf(c, kinds[c])] :
        kinds \in {ks \in [1..n -> CellKinds] :
                      Cardinality({c \in 1..n : ks[c] # "empty"}) <= MaxFilled}}

InitTable ==
    /\ SysIdle /\ DayIdle /\ EntIdle /\ ServeIdle /\ SpanIdle
    /\ \E caption \in Captions, header \in Headers :
          \E row \in RowsOf(Len(header)) :
              tab = [caption |-> caption, header |-> header, rows |-> <<row>>]
    /\ tabOut = <<>>
    /\ tabBy = "none"
    /\ later = <<>>

\* the table a function looks for: the index of the first table that
\* qualifies, 0 if none does
FirstQualifying(by, tables) == MinOr0({i \in 1..Len(tables) : Qualifies(by, tables[i])})

\* the opening hours a function returns for a page with these tables:
\* extract_opening_hours and parse_opening_hours_table stop the search at the
\* first table that qualifies (break), extract_opening_hours_alternative goes
\* through all the tables and appends from each one that qualifies
ExtractPage(by, tables) ==
    IF by = "extract_opening_hours_alternative"
    THEN [wd \in WeekdaySet |->
             JoinWith([i \in 1..Len(tables) |-> ExtractTable(by, tables[i])[wd]], <<>>)]
    ELSE IF FirstQualifying(by, tables) = 0 THEN [wd \in WeekdaySet |-> <<>>]
         ELSE ExtractTable(by, tables[FirstQualifying(by, tables)])

\* one of the functions is run on the page
TableStep(by) ==
    /\ tabBy = "none"
    /\ tabOut' = ExtractPage(by, <<tab>> \o later)
    /\ tabBy' = by
    /\ UNCHANGED <<tab, later, sysVars, dayVars, entVars, serveVars, spanVars>>

extract_opening_hours == TableStep("extract_opening_hours")
parse_opening_hours_table == TableStep("parse_opening_hours_table")
extract_opening_hours_alternative == TableStep("extract_opening_hours_alternative")

NextTable == extract_opening_hours \/ parse_opening_hours_table \/ extract_opening_hours_alternative

SpecTable == InitTable /\ [][NextTable]_vars

\* a line that stands for "no entry"
IsSentinel(l) == Lower(l) \in {K_geschlossen, K_dash, K_ruhetag}

\* the weekday a header cell is the name or the two-letter abbreviation of, 0 if none
NamedDay(cell) ==
    MinOr0({k \in 1..Len(WEEKDAYS) :
               Lower(cell) \in {Lower(WeekdayText[WEEKDAYS[k]]), DayAbbr(k, 2)}})

\* the lines of the data cells
AllLines == UNION {Range(tab.rows[r][c]) : r \in 1..Len(tab.rows), c \in 1..Len(tab.header)}

\* how often the line l stands in the data cells of the columns whose number is in cols
ColumnCount(cols, l) ==
    Cardinality({x \in (1..Len(tab.rows)) \X cols \X (1..2) :
                    /\ x[3] <= Len(tab.rows[x[1]][x[2]])
                    /\ tab.rows[x[1]][x[2]][x[3]] = l})

\* C15: structural extraction never mixes days: when the header row names
\* the weekdays by abbreviation or by full name, each line of a data cell
\* that is no sentinel is in the list of the weekday of its column once per
\* occurrence, and in no other list; so a header Mo..So with one entry in the
\* first column gives a Monday list of exactly that entry.
C15_NoDayMixing ==
    (tabBy # "none" /\ \A c \in 1..Len(tab.header) : NamedDay(tab.header[c]) # 0) =>
        \A k \in 1..Len(WEEKDAYS) : \A l \in AllLines :
            ~IsSentinel(l) =>
                Count(tabOut[WEEKDAYS[k]], l)
                    = ColumnCount({c \in 1..Len(tab.header) : NamedDay(tab.header[c]) = k}, l)

\* no header cell has a weekday name or abbreviation in it
NoHeaderMatch == \A c \in 1..Len(tab.header) : FirstDay(Lower(tab.header[c]), 2) = 0

\* C16: when no header cell matches a weekday and the header row has at least
\* 7 cells, column i is taken for weekday i, Monday first, and the time entries
\* of the cells of these columns are extracted; when a header cell matches a
\* weekday, no entry is taken from a column by its position.
C16_PositionalFallback ==
    tabBy # "none" =>
        IF NoHeaderMatch
        THEN Len(tab.header) >= 7 =>
                 \A k \in 1..Len(WEEKDAYS) : \A l \in AllLines :
                     IsDigit(l[1]) => Count(tabOut[WEEKDAYS[k]], l) = ColumnCount({k}, l)
        ELSE \A k \in 1..Len(WEEKDAYS) : \A l \in Range(tabOut[WEEKDAYS[k]]) :
                 ColumnCount({c \in 1..Len(tab.header) : NamedDay(tab.header[c]) = k}, l) > 0

----------------------------------------------------------------------------
(* scrape_pools_fixed.py parse_pool, lines 86-156: the hours of each weekday
   from hours_text, the flattened text of the page. *)

MaxSections == 3   \* weekday sections of one page text

\* \b<weekday>\b with re.IGNORECASE matches at position i
WeekdayWordAt(s, i, weekday) ==
    /\ HasAtCI(s, i, WeekdayText[weekday])
    /\ ~IsWordChar(Chr(s, i - 1))
    /\ ~IsWordChar(Chr(s, i + Len(WeekdayText[weekday])))

\* pattern.search(hours_text, pos): where the first match from position from on
\* starts, 0 if there is none
SearchWeekday(s, weekday, from) ==
    MinOr0({i \in from..Len(s) : WeekdayWordAt(s, i, weekday)})

RECURSIVE FutureStart(_, _, _)
\* lines 98-104: the loop over WEEKDAYS[weekday_idx + 1:], k the weekday it is
\* at: the start of the first of these weekdays that occurs from position from
\* on, 0 if none of them does
FutureStart(s, k, from) ==
    IF k > Len(WEEKDAYS) THEN 0
    ELSE OrElse(SearchWeekday(s, WEEKDAYS[k], from), FutureStart(s, k + 1, from))

\* lines 94-107: hours_text[start_pos:end_pos] for the weekday k found at start
ChunkFrom(s, k, start) ==
    Slice(s, start,
          OrElse(FutureStart(s, k + 1, start + Len(WeekdayText[WEEKDAYS[k]])), Len(s) + 1) - 1)

\* the chunk of weekday k, <<>> when the name does not occur (lines 88-92)
WeekdayChunk(s, k) ==
    IF SearchWeekday(s, WEEKDAYS[k], 1) = 0 THEN <<>>
    ELSE ChunkFrom(s, k, SearchWeekday(s, WEEKDAYS[k], 1))

\* lines 86-156: the chunk and the hours of every weekday
SpanExtract(s) ==
    [k \in 1..Len(WEEKDAYS) |->
        [chunk |-> WeekdayChunk(s, k),
         hours |-> IF WeekdayChunk(s, k) = <<>> THEN <<>>
                   ELSE FixedChunkHours(WEEKDAYS[k], WeekdayChunk(s, k))]]

\* the time range of the section of weekday k, and the section
SectionTime(k) ==
    <<"0", DigitChars[k + 1], ":", "0", "0", "-", "1", DigitChars[k + 1], ":", "0", "0">>
Section(k) == WeekdayText[WEEKDAYS[k]] \o <<" ">> \o SectionTime(k) \o <<" ">>

RECURSIVE SectionsText(_, _)
\* the page text with the sections of the weekdays order[i], order[i + 1], ...
SectionsText(order, i) ==
    IF i > Len(order) THEN <<>> ELSE Section(order[i]) \o SectionsText(order, i + 1)

\* page texts: the sections of up to MaxSections different weekdays, in any order
SectionOrders ==
    {order \in UNION {[1..n -> 1..Len(WEEKDAYS)] : n \in 0..MaxSections} :
        \A i, j \in 1..Len(order) : order[i] = order[j] => i = j}
SpanTexts == {SectionsText(order, 1) : order \in SectionOrders}

InitSpan ==
    /\ SysIdle /\ DayIdle /\ EntIdle /\ ServeIdle /\ TabIdle
    /\ spanText \in SpanTexts
    /\ spanOut = <<>>
    /\ spanPhase = "text"

\* parse_pool of scrape_pools_fixed.py on a page with the text spanText
FixedExtractSpans ==
    /\ spanPhase = "text"
    /\ spanOut' = SpanExtract(spanText)
    /\ spanPhase' = "extracted"
    /\ UNCHANGED <<spanText, sysVars, dayVars, entVars, serveVars, tabVars>>

NextSpan == FixedExtractSpans

SpecSpan == InitSpan /\ [][NextSpan]_vars

\* where the nearest weekday token other than that of weekday k starts from
\* position from on, the end of the text if there is none
NearestOther(s, k, from) ==
    OrElse(MinOr0({i \in from..Len(s) :
                      \E j \in 1..Len(WEEKDAYS) : j # k /\ WeekdayWordAt(s, i, WEEKDAYS[j])}),
           Len(s) + 1)

\* C18: in fallback span extraction the section of weekday D ends at the
\* nearest following token of any other weekday, or at the end of the text, so
\* that no time entry that stands after another weekday's token is attributed
\* to D, in whatever order the weekday names stand in the text.
C18_SpanEndsAtNearest ==
    spanPhase = "extracted" =>
        \A k \in 1..Len(WEEKDAYS) :
            SearchWeekday(spanText, WEEKDAYS[k], 1) # 0 =>
                /\ spanOut[k].chunk =
                       Slice(spanText, SearchWeekday(spanText, WEEKDAYS[k], 1),
                             NearestOther(spanText, k, SearchWeekday(spanText, WEEKDAYS[k], 1)) - 1)
                /\ \A j \in 1..Len(WEEKDAYS) : \A e \in Range(spanOut[k].hours) :
                       Contains(e, SectionTime(j)) => j = k

----------------------------------------------------------------------------
(* The rule table of normalize_description, as the description of the rules
   gives it *)

\* where group 1 of the match of normalize_description ends in an entry that
\* starts with a time pair, and the two parts of the entry
EntryG1End(entry) ==
    SetMin({j \in PairEnd(entry, 1)..(Len(entry) + 1) :
               IsSpace(Chr(entry, j)) \/ j = Len(entry) + 1})
EntryTime(entry) == Strip(SubSeq(entry, 1, EntryG1End(entry) - 1))
EntryDesc(entry) == Lower(Description(entry, EntryG1End(entry)))

\* the markers of a lower-case description
HasRestrictedMarker(d) ==
    Contains(d, K_eingeschraenk_uml) \/ Contains(d, K_eingeschraenk) \/ Contains(d, K_eingeschr)
HasPublicMarker(d) == Contains(d, K_oeffent) \/ Contains(d, K_offent)
HasSchoolMarker(d) == Contains(d, K_schul) \/ Contains(d, K_verein) \/ Contains(d, K_kurs)
HasDisabilityMarker(d) == Contains(d, K_menschen_mit_behinderung) \/ Contains(d, K_behinderung)

\* the entry out is the time part of the cleaned entry with the label
Labelled(cleaned, out, label) == out = EntryTime(cleaned) \o <<" ">> \o label

RestrictedNeedsPublic(cleaned, out) ==
    (PairEnd(cleaned, 1) # 0 /\ Labelled(cleaned, out, L_restricted)) =>
        (HasRestrictedMarker(EntryDesc(cleaned)) /\ HasPublicMarker(EntryDesc(cleaned)))

\* C19: normalize_description gives the label 'oeffentl. Schwimmen (eingeschr.
\* WF)' only to a description with both a restricted-surface marker and a
\* public-swimming marker; a description with a restricted-surface marker and
\* no public-swimming marker is left to the later rules.
C19_RestrictedNeedsPublic ==
    entPhase > 0 => RestrictedNeedsPublic(clean_entry(entPrev), ent)

\* the label of the first rule that holds for a lower-case description, in
\* the order restricted and public, school, mixed, disability, public;
\* <<>> when no rule holds
FirstRuleLabel(d) ==
    IF HasRestrictedMarker(d) /\ HasPublicMarker(d) THEN L_restricted
    ELSE IF HasSchoolMarker(d) THEN L_school
    ELSE IF Contains(d, K_gemischt) THEN L_mixed
    ELSE IF HasDisabilityMarker(d) THEN L_disability
    ELSE IF HasPublicMarker(d) THEN L_public
    ELSE <<>>

Labels == {L_restricted, L_school, L_mixed, L_disability, L_public}

FirstMatchWins(cleaned, out) ==
    (PairEnd(cleaned, 1) # 0 /\ EntryDesc(cleaned) # <<>>) =>
        IF FirstRuleLabel(EntryDesc(cleaned)) # <<>>
        THEN Labelled(cleaned, out, FirstRuleLabel(EntryDesc(cleaned)))
        ELSE \A label \in Labels : ~Labelled(cleaned, out, label)

\* C20: the label of a description is that of the first rule that holds, in
\* the order restricted and public, school/club/course, mixed, disability,
\* public, for every combination of markers; the free text is kept only
\* when no rule holds.
C20_FirstMatchWins ==
    entPhase > 0 => FirstMatchWins(clean_entry(entPrev), ent)

----------------------------------------------------------------------------
(* clean_strict.py: clean_entry, is_valid_entry and one weekday of main *)

\* ^\d{1,2}:\d{2}\s*-\s*\d{1,2}:\d{2}\s*Uhr\s+ at the start of the entry: the index
\* after the match, or 0
StrictHeadEnd(entry) ==
    LET a == TimeEnd(entry, 1)
        b == SkipSpaces(entry, a)
        c == IF a # 0 /\ Chr(entry, b) = "-" THEN TimeEnd(entry, SkipSpaces(entry, b + 1)) ELSE 0
        u == SkipSpaces(entry, c)
    IN  IF c # 0 /\ HasAt(entry, u, <<"U", "h", "r">>) /\ IsSpace(Chr(entry, u + 3))
        THEN SkipSpaces(entry, u + 3)
        ELSE 0

\* match = re.match(r'^(\d{1,2}:\d{2}\s*-\s*\d{1,2}:\d{2}\s*Uhr\s+[^;|]*?)(?:[;|]|$)', entry)
\* if match: entry = match.group(1).strip()
StrictCut(entry) ==
    LET h == StrictHeadEnd(entry)
    IN  IF h = 0 THEN entry
        ELSE Strip(Slice(entry, 1,
                 SetMin({j \in h..(Len(entry) + 1) :
                             Chr(entry, j) \in {";", "|"} \/ j = Len(entry) + 1}) - 1))

\* clean_strict.clean_entry, lines 44-70
strict_clean_entry(entry) ==
    Strip(TruncateEntry(StrictCut(
        SubUhrSpacing(SubDash(
            Strip(SubSpaces(SubControl(
                Strip(StripLeadingWeekday(Strip(entry))), 1), 1)), 1), 1))))

\* lines 103-119: the parts of one raw entry, each cleaned, validated, deduplicated
RECURSIVE StrictAddParts(_, _)
StrictAddParts(acc, parts) ==
    IF parts = <<>> THEN acc
    ELSE StrictAddParts(
             AddCandidate(acc, Validated(strict_clean_entry(Head(parts)))), Tail(parts))

\* lines 96-119
RECURSIVE StrictClean(_, _)
StrictClean(acc, raw_entries) ==
    IF raw_entries = <<>> THEN acc
    ELSE StrictClean(
             StrictAddParts(acc, StripNonEmpty(SplitChar(Head(raw_entries), ";"))),
             Tail(raw_entries))

\* the list stored in pool["hours"][weekday]: lines 89-122
strict_day(raw_entries) == StrictClean([cleaned |-> <<>>, seen |-> {}], raw_entries).cleaned

StrictTable == <<>> @@ [l \in DayLists |-> strict_day(l)]

----------------------------------------------------------------------------
(* SpecStrict: one weekday list cleaned by clean_strict.main or by         *)
(* clean_with_check.main                                                   *)

StrictDay ==
    /\ dayPhase = "raw"
    /\ dayOut' = TableGet(StrictTable, dayIn, strict_day(dayIn))
    /\ dayPhase' = "strict"
    /\ UNCHANGED <<dayWd, dayIn, sysVars, entVars, serveVars, spanVars, tabVars>>

NextStrict == StrictDay \/ CleanDay

SpecStrict == InitDay /\ [][NextStrict]_vars

\* C21: a day whose raw entries include the literal "Geschlossen" still holds a
\* "Geschlossen" entry after clean_strict and after clean_with_check.
C21_ClosedSurvives ==
    (dayPhase # "raw" /\ \E i \in 1..Len(dayIn) : dayIn[i] = GESCHLOSSEN)
        => \E j \in 1..Len(dayOut) : dayOut[j] = GESCHLOSSEN

----------------------------------------------------------------------------
(* The entries of a cleaned weekday list *)

\* a start-end pair of HH:MM-shaped tokens separated by a dash stands at index i
PairShapeAt(e, i) ==
    /\ TimeEnd(e, i) # 0
    /\ \E d \in TimeEnd(e, i)..Len(e) :
          /\ e[d] \in {"-", "--"}
          /\ \A x \in TimeEnd(e, i)..(d - 1) : IsSpace(e[x])
          /\ \E t \in (d + 1)..Len(e) :
                /\ TimeEnd(e, t) # 0
                /\ \A x \in (d + 1)..(t - 1) : IsSpace(e[x])

TimeEntry(e) == Len(e) >= 8 /\ \E i \in 1..Len(e) : PairShapeAt(e, i)

\* C22: every entry of a weekday list written by the cleaning pass is the
\* literal "Geschlossen", the unknown sentinel "?", or a string of at least 8
\* characters containing a start-end pair of HH:MM-shaped tokens separated by a
\* dash; a malformed candidate never reaches the output.
C22_OnlyValidEntries ==
    dayPhase = "cleaned" =>
        \A j \in 1..Len(dayOut) :
            dayOut[j] = GESCHLOSSEN \/ dayOut[j] = UNKNOWN \/ TimeEntry(dayOut[j])

\* a list with a malformed candidate ("Ruhetag") and a well-formed one has been
\* cleaned, and the well-formed one is in the output
C22_Witness ==
    /\ dayPhase = "cleaned"
    /\ \E i \in 1..Len(dayIn) : dayIn[i] = R_ruhetag
    /\ \E j \in 1..Len(dayOut) : TimeEntry(dayOut[j])
    /\ Len(dayOut) < Len(dayIn)

----------------------------------------------------------------------------
(* SpecPage: a page with more than one table *)

MaxLater == 1      \* tables of a page after the first

\* a time entry of column c in a later table
LaterLine(c) == <<"1", DigitChars[c + 1], ":", "0", "0", " ", "-", " ", "1", "8", ":", "0", "0", " ", "U", "h", "r">>

\* the tables of a page: with or without caption, the header row abbreviated,
\* in full or naming no weekday, one data row with entries in none, one or both
\* of the first two columns
PageHeaders == {HeadAbbr, HeadFull, HeadPlain(7)}
PageRow(line(_), filled) == [c \in 1..7 |-> IF c \in filled THEN <<line(c)>> ELSE <<>>]
PageTables(line(_)) ==
    {[caption |-> caption, header |-> header, rows |-> <<PageRow(line, filled)>>] :
        caption \in Captions, header \in PageHeaders, filled \in SUBSET {1, 2}}

InitPage ==
    /\ SysIdle /\ DayIdle /\ EntIdle /\ ServeIdle /\ SpanIdle
    /\ tab \in PageTables(EntryLine)
    /\ later \in UNION {[1..n -> PageTables(LaterLine)] : n \in 0..MaxLater}
    /\ tabOut = <<>>
    /\ tabBy = "none"

SpecPage == InitPage /\ [][NextTable]_vars

\* the lines of the data cells of a table
LinesOf(t) == UNION {Range(t.rows[r][c]) : r \in 1..Len(t.rows), c \in 1..Len(t.header)}

\* C23: among the tables of a page the first one that qualifies is the only
\* one used: every entry of every weekday is a line of that table, and a later
\* table that also qualifies contributes no entry.
C23_FirstTableOnly ==
    (tabBy # "none" /\ FirstQualifying(tabBy, <<tab>> \o later) # 0) =>
        \A wd \in WeekdaySet : \A l \in Range(tabOut[wd]) :
            l \in LinesOf((<<tab>> \o later)[FirstQualifying(tabBy, <<tab>> \o later)])

----------------------------------------------------------------------------
(* SpecCell: the lines of a data cell, for the three functions of SpecTable
   and for get_pool_hours_clean (extract_hours_minimal.py lines 93-136) *)

get_pool_hours_clean == TableStep("get_pool_hours_clean")

\* the data cells of column c: empty, one entry, a sentinel word alone, an
\* entry followed by a sentinel word or by a line that starts with 'nur'
SentinelWords == {<<"G">> \o Tail(K_geschlossen), K_geschlossen, K_dash, <<"R">> \o Tail(K_ruhetag)}
SentinelCells(c) ==
    {<<>>, <<EntryLine(c)>>, <<EntryLine(c), NurLine>>}
    \cup {<<w>> : w \in SentinelWords}
    \cup {<<EntryLine(c), w>> : w \in SentinelWords}

\* a table every function accepts: weekday names in the caption, the header
\* row abbreviated or in full, text in the first two cells of the data row
InitCell ==
    /\ SysIdle /\ DayIdle /\ EntIdle /\ ServeIdle /\ SpanIdle
    /\ \E header \in {HeadAbbr, HeadFull} :
          \E first \in SentinelCells(1), second \in SentinelCells(2) :
              tab = [caption |-> WeekdayText["Montag"] \o <<" ", "b", "i", "s", " ">> \o WeekdayText["Sonntag"],
                     header |-> header,
                     rows |-> <<[c \in 1..7 |-> IF c = 1 THEN first ELSE IF c = 2 THEN second ELSE <<>>]>>]
    /\ tabOut = <<>>
    /\ tabBy = "none"
    /\ later = <<>>

NextCell == NextTable \/ get_pool_hours_clean

SpecCell == InitCell /\ [][NextCell]_vars

\* C24: every line of a mapped cell that equals, case-insensitively, one of
\* the sentinel words 'geschlossen', '-', 'ruhetag' is dropped, also when it is
\* one line of a multi-line cell, and every other line of the cell is an entry
\* of the weekday of its column.
C24_SentinelLinesDropped ==
    tabBy # "none" =>
        \A c \in 1..Len(tab.header) : \A l \in Range(tab.rows[1][c]) :
            IF IsSentinel(l)
            THEN \A wd \in WeekdaySet : Count(tabOut[wd], l) = 0
            ELSE Count(tabOut[WEEKDAYS[NamedDay(tab.header[c])]], l) = 1

----------------------------------------------------------------------------
(* scraper/scrape_pools.py parse_pool, lines 109-189: the chain of the three
   strategies.  found.table, found.elements and found.label are the entries
   the loops of strategy 1 (lines 110-143), strategy 2 (lines 148-174) and
   strategy 3 (lines 178-189) append for the page when they run. *)

\* any(hours.values())
AnyHours(hours) == \E wd \in WeekdaySet : hours[wd] # <<>>

\* a strategy appends what it finds to the lists
Appended(hours, entries) == [wd \in WeekdaySet |-> hours[wd] \o entries[wd]]

\* faulty variant of strategy 3: it runs whatever the earlier strategies found
LabelStrategy_unguarded(hours, found) == Appended(hours, found.label)

\* lines 109-143: strategy 1 runs on the empty lists of line 101
TableStrategy(found) == Appended(EmptyHours, found.table)

\* lines 146-174
ElementStrategy(hours, found) ==
    IF ~AnyHours(hours) THEN Appended(hours, found.elements) ELSE hours

\* lines 177-189
LabelStrategy(hours, found) ==
    IF ~AnyHours(hours) THEN Appended(hours, found.label) ELSE hours

\* hours as it stands at line 190
Collected(found) == LabelStrategy(ElementStrategy(TableStrategy(found), found), found)

\* what one strategy finds on a page: nothing, an entry on the days of the
\* week, an entry at the weekend
Findings(entry) == {EmptyHours, ByDay(<<entry>>, <<>>), ByDay(<<>>, <<entry>>)}

\* the pages of SpecChain: every combination of what the strategies find
ChainPages ==
    {[kind |-> "page", h1 |-> H_bad, title |-> <<>>, strong |-> <<>>,
      collected |-> Collected([table |-> t, elements |-> e, label |-> l]),
      rest |-> ByDay(NoChunk, NoChunk),
      found |-> [table |-> t, elements |-> e, label |-> l]] :
        t \in Findings(C_swim), e \in Findings(C_early), l \in Findings(C_late)}

\* scrape_pools.py main on pages of ChainPages: the first run in a data
\* directory (a later run writes the file anew whatever it holds)
ScrapeChainMain ==
    \E n \in 1..MaxUrls : \E pages \in [1..n -> ChainPages] :
        /\ ~file.exists
        /\ file' = [exists |-> TRUE,
                    data |-> [i \in 1..n |-> ScrapeRecord(BatchUrl(i), pages[i])]]
        /\ passes' = 0
        /\ prevFile' = NoFile
        /\ batch' = [i \in 1..n |-> [url |-> BatchUrl(i), outcome |-> pages[i]]]
        /\ UNCHANGED <<dayVars, entVars, serveVars, spanVars, tabVars>>

NextChain == ScrapeChainMain

SpecChain == Init /\ [][NextChain]_vars

StrategyNames == {"table", "elements", "label"}

\* every entry of the record is one the strategy s found for the same weekday
OnlyFrom(hours, entries) == \A wd \in WeekdaySet : Range(hours[wd]) \subseteq Range(entries[wd])

\* C25: a later strategy runs only if every earlier strategy left all seven
\* weekday lists empty: the entries of a record all come from a single
\* strategy, the first that found any, and the fallback adds nothing to a
\* record that the table strategy populated.
C25_StrategyChain ==
    \A i \in 1..Len(batch) :
        LET found == batch[i].outcome.found
            hours == file.data[i].hours
        IN  /\ AnyHours(found.table) => OnlyFrom(hours, found.table)
            /\ (~AnyHours(found.table) /\ AnyHours(found.elements)) => OnlyFrom(hours, found.elements)
            /\ \E s \in StrategyNames : OnlyFrom(hours, found[s])

\* a record has been written for a page on which the table strategy and the
\* fallback both find entries, and the record holds the table's
C25_Witness ==
    \E i \in 1..Len(batch) :
        /\ AnyHours(batch[i].outcome.found.table)
        /\ AnyHours(batch[i].outcome.found.label)
        /\ AnyHours(file.data[i].hours)

----------------------------------------------------------------------------
(* clean_data_new.py: clean_entry (lines 21-43) *)

NEW_ENTRY_MAX == 150

\* \s*Uhr\s+ at index p: the index after the match, or 0
NewUhrEnd(s, p) ==
    LET j == SkipSpaces(s, p)
    IN  IF HasAt(s, j, <<"U", "h", "r">>) /\ IsSpace(Chr(s, j + 3))
        THEN SkipSpaces(s, j + 3)
        ELSE 0

\* re.sub(r'\s*Uhr\s+', ' Uhr ', entry)
RECURSIVE SubNewUhr(_, _)
SubNewUhr(s, i) ==
    LET M == {p \in i..Len(s) : NewUhrEnd(s, p) # 0}
    IN  IF M = {} THEN Slice(s, i, Len(s))
        ELSE LET p == SetMin(M)
             IN  Slice(s, i, p - 1) \o <<" ", "U", "h", "r", " ">>
                 \o SubNewUhr(s, NewUhrEnd(s, p))

\* if len(entry) > 150: entry = entry[:150].rsplit(' ', 1)[0]
NewTruncate(s) ==
    IF Len(s) > NEW_ENTRY_MAX THEN RsplitFirst(SubSeq(s, 1, NEW_ENTRY_MAX)) ELSE s

new_clean_entry(entry) ==
    Strip(NewTruncate(
        SubNewUhr(SubDash(
            Strip(SubSpaces(SubControl(Strip(StripLeadingWeekday(entry)), 1), 1)), 1), 1)))

----------------------------------------------------------------------------
(* SpecTrunc: one long entry made by each of the normalizers *)

MaxEntryLen == 156     \* longest entry text
MaxWordLen == 4        \* longest word of a worded entry

\* n times the character c
Repeat(c, n) == [i \in 1..n |-> c]

\* a time pair with "Uhr" and k words of w letters after it
RECURSIVE Worded(_, _)
Worded(w, k) ==
    IF k = 0 THEN <<"1","0",":","0","0"," ","-"," ","1","2",":","0","0">> \o U_spaced
    ELSE Worded(w, k - 1) \o <<" ">> \o Repeat("w", w)

\* the long entries: one word without any space, and worded entries, of the
\* lengths around the two budgets
TruncInputs ==
    {Repeat("x", n) : n \in {ENTRY_MAX_LEN - 1, ENTRY_MAX_LEN, ENTRY_MAX_LEN + 1,
                             NEW_ENTRY_MAX, NEW_ENTRY_MAX + 1}}
    \cup UNION {{e \in {Worded(w, k) : k \in 1..(MaxEntryLen \div (w + 1))} :
                    Len(e) > ENTRY_MAX_LEN - 6 /\ Len(e) <= MaxEntryLen} : w \in 1..MaxWordLen}

InitTrunc ==
    /\ ent \in TruncInputs
    /\ entPrev = ent
    /\ entPhase = 0
    /\ entBy = "none"
    /\ SysIdle /\ DayIdle /\ ServeIdle /\ SpanIdle /\ TabIdle

\* a function makes an entry of the text: before is the entry as it stands
\* when the function tests its length, after the entry the function returns
TruncStep(by, before, after) ==
    /\ entBy = "none"
    /\ entPrev' = before
    /\ ent' = after
    /\ entBy' = by
    /\ UNCHANGED <<entPhase, sysVars, dayVars, serveVars, spanVars, tabVars>>

\* clean_with_check.clean_entry; the length is tested at line 66
CleanEntryChecked ==
    TruncStep("clean_with_check",
              SubTrailingJunk(CleanSeparators(CleanWhitespace(CleanWeekdays(ent)))),
              clean_entry(ent))

\* clean_strict.clean_entry; the length is tested at line 67
CleanEntryStrict ==
    TruncStep("clean_strict",
              StrictCut(SubUhrSpacing(SubDash(
                  Strip(SubSpaces(SubControl(
                      Strip(StripLeadingWeekday(Strip(ent))), 1), 1)), 1), 1)),
              strict_clean_entry(ent))

\* clean_data_new.clean_entry; the length is tested at line 40
CleanEntryNew ==
    TruncStep("clean_data_new",
              SubNewUhr(SubDash(
                  Strip(SubSpaces(SubControl(Strip(StripLeadingWeekday(ent)), 1), 1)), 1), 1),
              new_clean_entry(ent))

\* scrape_pools_fixed.parse_pool, lines 123-149, for the first match of
\* time_pattern in the text; the length is tested at line 140
FixedFirstEntry ==
    /\ FindAllFixed(ent, 1) # <<>>
    /\ TruncStep("scrape_pools_fixed",
                 SubTrailingJunk(FixedUhr(SubSpaces(
                     Strip(StripWeekdayPrefix(Strip(FindAllFixed(ent, 1)[1]), "Montag")), 1))),
                 FixedEntry("Montag", FindAllFixed(ent, 1)[1]))

NextTrunc == CleanEntryChecked \/ CleanEntryStrict \/ CleanEntryNew \/ FixedFirstEntry

SpecTrunc == InitTrunc /\ [][NextTrunc]_vars

\* the length budget of a function
Budget(by) == IF by \in {"clean_with_check", "clean_strict"} THEN ENTRY_MAX_LEN ELSE NEW_ENTRY_MAX

\* short is long cut at a word boundary: a prefix of it that does not end in
\* a space and is followed in long by a space or by nothing
CutAtWordBoundary(short, long) ==
    /\ Len(short) <= Len(long)
    /\ short = SubSeq(long, 1, Len(short))
    /\ short # <<>> => short[Len(short)] # " "
    /\ Len(short) < Len(long) => long[Len(short) + 1] = " "

\* C26: length truncation yields an entry no longer than the budget (120
\* characters in clean_with_check and clean_strict, 150 in clean_data_new and
\* scrape_pools_fixed) that is a prefix of the untruncated entry ending at a
\* word boundary, also when the first budget-many characters hold no space.
C26_TruncatesAtWordBoundary ==
    entBy # "none" =>
        /\ Len(ent) <= Budget(entBy)
        /\ CutAtWordBoundary(ent, entPrev)

----------------------------------------------------------------------------
(* SpecPass: clean_with_check.main (lines 116-219) and clean_strict.main
   (lines 73-137) as processes: the file is read and parsed, the pools are
   processed one after the other in memory, then the file is opened for
   writing and the collection is dumped. *)

J_name == <<"n", "a", "m", "e">>
J_hours == <<"h", "o", "u", "r", "s">>
J_source_url == <<"s", "o", "u", "r", "c", "e", "_", "u", "r", "l">>
J_fetched_at == <<"f", "e", "t", "c", "h", "e", "d", "_", "a", "t">>
J_error == <<"e", "r", "r", "o", "r">>

\* key in d
JHas(d, key) == \E k \in 1..Len(d.items) : d.items[k][1] = key

\* d[key]
JGet(d, key) == d.items[CHOOSE k \in 1..Len(d.items) : d.items[k][1] = key][2]

\* d[key] = v: a key the dict has keeps its place, a new key goes to the end
JSet(d, key, v) ==
    IF JHas(d, key)
    THEN [d EXCEPT !.items = [k \in 1..Len(d.items) |->
                                 IF d.items[k][1] = key THEN <<key, v>> ELSE d.items[k]]]
    ELSE [d EXCEPT !.items = Append(d.items, <<key, v>>)]

\* the strings of a list, and the list of some strings
JStrings(list) == [i \in 1..Len(list.items) |-> list.items[i].s]
JOfStrings(entries) == JList([i \in 1..Len(entries) |-> JStr(entries[i])])

\* pool["hours"].get(weekday, [])
JRawEntries(hours, weekday) ==
    IF JHas(hours, WeekdayText[weekday]) THEN JStrings(JGet(hours, WeekdayText[weekday])) ELSE <<>>

\* the list a pass stores for a weekday
PassCleaned(who, weekday, raw_entries) ==
    IF who = "clean_strict" THEN TableGet(StrictTable, raw_entries, strict_day(raw_entries))
    ELSE CleanDayOf(weekday, raw_entries)

\* the loop over WEEKDAYS from the k-th weekday on: pool["hours"][weekday] = cleaned
RECURSIVE PassDays(_, _, _)
PassDays(who, hours, k) ==
    IF k > Len(WEEKDAYS) THEN hours
    ELSE PassDays(who,
                  JSet(hours, WeekdayText[WEEKDAYS[k]],
                       JOfStrings(PassCleaned(who, WEEKDAYS[k], JRawEntries(hours, WEEKDAYS[k])))),
                  k + 1)

\* faulty variant of the processing of a pool: the error marker is lost
PassPoolOf_unmarked(who, pool) ==
    [t |-> "dict", s |-> <<>>,
     items |-> SelectSeq(JSet(pool, J_hours, PassDays(who, JGet(pool, J_hours), 1)).items,
                         LAMBDA m : m[1] # J_error)]

\* one pool processed: the dict pool["hours"] is changed in place
PassPoolOf(who, pool) == JSet(pool, J_hours, PassDays(who, JGet(pool, J_hours), 1))

\* what `for pool in data` goes through: the elements of a list, the keys of a dict
PassItems(data) ==
    IF data.t = "dict" THEN [k \in 1..Len(data.items) |-> JStr(data.items[k][1])]
    ELSE IF data.t = "str" THEN [k \in 1..Len(data.s) |-> JStr(<<data.s[k]>>)]
    ELSE data.items

\* pool.get("name", ...) and pool["hours"].get(...) raise for this element:
\* it is no dict, it has no "hours", or its "hours" is no dict
PoolRaises(pool) ==
    \/ pool.t # "dict"
    \/ ~JHas(pool, J_hours)
    \/ JGet(pool, J_hours).t # "dict"

\* the records of the files a pass is run on: a scraped pool, one whose keys
\* are in another order, the record of a failed fetch, a record without hours
\* (strings without quotes or backslashes, which Dump would have to escape)
P_open ==
    JDict(<< <<J_name, JStr(H_bad)>>,
             <<J_hours, JDict(<< <<WeekdayText["Montag"], JOfStrings(<<R_uhr, R_ruhetag>>)>>,
                                 <<WeekdayText["Samstag"], JOfStrings(<<R_closed>>)>> >>)>>,
             <<J_source_url, JStr(U_a)>>,
             <<J_fetched_at, JStr(<<"u", "t", "c", "n", "o", "w">>)>> >>)
P_swapped ==
    JDict(<< <<J_hours, JDict(<< <<WeekdayText["Sonntag"], JOfStrings(<<R_school, R_uhr_lower>>)>> >>)>>,
             <<J_name, JStr(H_title)>> >>)
P_failed ==
    JDict(<< <<J_name, JStr(N_failed)>>,
             <<J_hours, JDict(<<>>)>>,
             <<J_source_url, JStr(U_b)>>,
             <<J_fetched_at, JStr(<<"u", "t", "c", "n", "o", "w">>)>>,
             <<J_error, JStr(<<"E", "r", "r", "o", "r">>)>> >>)
P_nohours ==
    JDict(<< <<J_name, JStr(H_bad)>>, <<J_source_url, JStr(U_b)>> >>)

PassRecords == {P_open, P_swapped, P_failed, P_nohours}
\* the collections of the files: lists of records, and a file that holds one
\* record instead of a list
PassData == UNION {{JList(l) : l \in [1..n -> PassRecords]} : n \in 0..MaxServe} \cup {P_open}

NoPass == [pc |-> "idle", who |-> "none", data |-> JStr(<<>>), next |-> 0, before |-> NoDisk]

InitPass ==
    /\ SysIdle /\ DayIdle /\ EntIdle /\ SpanIdle /\ TabIdle
    /\ \E data \in PassData :
          disk = [kind |-> "file", bytes |-> Encode(Dump(data, 0)), by |-> "deployment",
                  full |-> TRUE, val |-> data]
    /\ writer = NoWriter
    /\ response = NoResponse
    /\ pass = [NoPass EXCEPT !.before = disk]

\* json.load(f) returned for the text read from the file, or raised
PassLoaded(who, d, r) ==
    IF ~r.ok THEN [pc |-> "raised", who |-> who, data |-> JStr(<<>>), next |-> 0, before |-> d]
    ELSE [pc |-> "pools", who |-> who, data |-> r.val, next |-> 1, before |-> d]

\* f.read() returned the text of the file, or raised UnicodeDecodeError
PassRead(who, d, text) ==
    IF ~text.ok THEN [pc |-> "raised", who |-> who, data |-> JStr(<<>>), next |-> 0, before |-> d]
    ELSE PassLoaded(who, d, Loads(text.text))

\* a pass starts: DATA_PATH exists, the file is read and parsed
PassStart ==
    /\ pass.pc = "idle"
    /\ disk.kind = "file"
    /\ \E who \in {"clean_with_check", "clean_strict"} :
          pass' = PassRead(who, disk, Decode(disk.bytes))
    /\ UNCHANGED <<disk, writer, response, sysVars, dayVars, entVars, spanVars, tabVars>>

\* faulty variant of the loop body: the collection is saved after every pool
PassPool_saving ==
    /\ pass.pc = "pools"
    /\ pass.next <= Len(PassItems(pass.data))
    /\ IF PoolRaises(PassItems(pass.data)[pass.next])
       THEN pass' = [pass EXCEPT !.pc = "raised"] /\ UNCHANGED disk
       ELSE /\ pass' = [pass EXCEPT !.data.items[pass.next] = PassPoolOf(pass.who, @),
                                    !.next = @ + 1]
            /\ disk' = [kind |-> "file", bytes |-> Encode(Dump(pass'.data, 0)), by |-> pass.who,
                        full |-> TRUE, val |-> pass'.data]
    /\ UNCHANGED <<writer, response, sysVars, dayVars, entVars, spanVars, tabVars>>

\* one turn of `for pool in data`: the pool is processed in memory, or the
\* exception ends the program
PassPool ==
    /\ pass.pc = "pools"
    /\ pass.next <= Len(PassItems(pass.data))
    /\ pass' = IF PoolRaises(PassItems(pass.data)[pass.next])
               THEN [pass EXCEPT !.pc = "raised"]
               ELSE [pass EXCEPT !.data.items[pass.next] = PassPoolOf(pass.who, @),
                                 !.next = @ + 1]
    /\ UNCHANGED <<disk, writer, response, sysVars, dayVars, entVars, spanVars, tabVars>>

\* after the loop: DATA_PATH.open("w", encoding="utf-8") creates or empties the file
PassOpen ==
    /\ pass.pc = "pools"
    /\ pass.next > Len(PassItems(pass.data))
    /\ pass' = [pass EXCEPT !.pc = "writing"]
    /\ disk' = [kind |-> "file", bytes |-> <<>>, by |-> pass.who, full |-> FALSE, val |-> pass.data]
    /\ UNCHANGED <<writer, response, sysVars, dayVars, entVars, spanVars, tabVars>>

\* json.dump and the end of the with block
PassClose ==
    /\ pass.pc = "writing"
    /\ pass' = [pass EXCEPT !.pc = "done"]
    /\ disk' = [disk EXCEPT !.bytes = Encode(Dump(pass.data, 0)), !.full = TRUE]
    /\ UNCHANGED <<writer, response, sysVars, dayVars, entVars, spanVars, tabVars>>

NextPass == PassStart \/ PassPool \/ PassOpen \/ PassClose

SpecPass == InitPass /\ [][NextPass]_vars

\* the record fields the pass is said to leave alone
FrameFields == {J_name, J_source_url, J_fetched_at, J_error}

\* records a and b agree on the presence and the value of every frame field
SameFrame(a, b) ==
    /\ a.t = "dict" /\ b.t = "dict"
    /\ \A f \in FrameFields :
          /\ JHas(a, f) = JHas(b, f)
          /\ JHas(a, f) => JGet(a, f) = JGet(b, f)

\* the collections parsed from two files have the same records in the same
\* order as far as the frame fields go
SameRecords(after, before) ==
    /\ after.ok /\ before.ok
    /\ after.val.t = "list" /\ before.val.t = "list"
    /\ Len(after.val.items) = Len(before.val.items)
    /\ \A i \in 1..Len(after.val.items) : SameFrame(after.val.items[i], before.val.items[i])

\* C27: when a cleaning pass has written the file, the file holds as many
\* pool records as before the pass, in the same order, and each record has
\* the same name, source_url, fetched_at and error as before (present with
\* the same value, or absent as before).
C27_OnlyHoursChange ==
    pass.pc = "done" =>
        SameRecords(Loads(Decode(disk.bytes).text), Loads(Decode(pass.before.bytes).text))

\* a finished pass over two records, one of them with an error field, that
\* changed the hours of a record
C27_Witness ==
    /\ pass.pc = "done"
    /\ Len(pass.data.items) = 2
    /\ \E i \in 1..2 : JHas(pass.data.items[i], J_error)
    /\ disk.bytes # pass.before.bytes

\* every record of the collection has a list for each of the seven weekdays
AllProcessed(r) ==
    /\ r.ok
    /\ \A i \in 1..Len(r.val.items) :
          \A k \in 1..Len(WEEKDAYS) :
             JHas(JGet(r.val.items[i], J_hours), WeekdayText[WEEKDAYS[k]])

\* C30: while a cleaning pass is processing pools, and after it has ended
\* with an exception, the file on disk is exactly the file from before the
\* pass; when the pass has written the file, every pool of it was processed.
C30_FileWrittenOnceAtEnd ==
    /\ pass.pc \in {"pools", "raised"} => disk = pass.before
    /\ pass.pc = "done" => AllProcessed(Loads(Decode(disk.bytes).text))

\* a pass that raised at its second pool, after it had cleaned the first in
\* memory to something else than what the file holds
C30_Witness ==
    /\ pass.pc = "raised"
    /\ pass.next = 2
    /\ pass.data.items[1] # pass.before.val.items[1]
    /\ disk = pass.before

----------------------------------------------------------------------------
(* the unknown sentinel and the weekend preference in the written lists *)

\* C28: in a list written by a cleaning pass (clean_with_check or
\* clean_strict) the unknown sentinel "?" is the only element of the list: no list holds "?" next to a time entry or
\* next to "Geschlossen".
C28_UnknownStandsAlone ==
    dayPhase \in {"cleaned", "strict"} =>
        ((\E i \in 1..Len(dayOut) : dayOut[i] = UNKNOWN) => Len(dayOut) = 1)

\* a weekend list that was written as the unknown sentinel, after the
\* preference rule and the sort have passed over it
C28_Witness ==
    /\ dayPhase = "cleaned"
    /\ dayWd = "Sonntag"
    /\ dayOut = <<UNKNOWN>>

----------------------------------------------------------------------------
(* SpecWeekend: the cleaning of weekday lists whose entries name public
   access and school use *)

R_glued == <<"1","0",":","0","0","-","1","2",":","0","0",",","o:","f","f","e","n","t","l","i","c","h"," ","n","u","r"," ","S","c","h","u","l","e">>   \* '10:00-12:00,oeffentlich nur Schule'

WeekendEntries == {R_glued, R_school, R_multi, R_closed}
WeekendLists == UNION {[1..n -> WeekendEntries] : n \in 0..MaxRaw}

InitWeekend ==
    /\ dayWd \in WeekdaySet
    /\ dayIn \in WeekendLists
    /\ dayOut = <<>>
    /\ dayPhase = "raw"
    /\ SysIdle /\ EntIdle /\ ServeIdle /\ SpanIdle /\ TabIdle

SpecWeekend == InitWeekend /\ [][NextDay]_vars

\* C29: a Saturday or Sunday list that is not empty before the weekend
\* preference is applied is not empty in the written list.
C29_WeekendNeverEmpties ==
    (dayPhase = "cleaned" /\ dayWd \in Weekend /\ BeforeOverride # <<>>) => dayOut # <<>>

====
